---- MODULE Spec2Model ----
(***************************************************************************)
(* Model of the ResonanceAI political-analysis core:                       *)
(*   src/src/heatmap.py            get_complete_heatmap_analysis           *)
(*   political_agent/subtools.py   get_candidate_base, get_political_base, *)
(*                                 get_targeted_base (retry wrappers)      *)
(*   political_agent/tools.py      create_candidate_analysis               *)
(*   app_components/heatmap_visuals.py, app.py   process_data,             *)
(*                                 process_entity_data                     *)
(*                                                                         *)
(* Numbers.  affinity and popularity are decimals in [0,1]; the model      *)
(* keeps them in hundredths (0.60 is 60), so that (a - b) * 100 is the     *)
(* integer a - b, in percentage points.  A column mean is a fraction: a    *)
(* net value is kept as a pair <<num, den>> meaning num / den points.      *)
(* NaN is the missing value of a pandas column; Bad is a raw provider      *)
(* value that is not a number (None or a string).                          *)
(***************************************************************************)
EXTENDS Integers, Sequences, FiniteSets, TLC

\* ------------------------------------------------------------------ bounds
MaxEntityNames == 2   \* longest entity_names list of a direct grid-fetcher call
MaxTagNames    == 1   \* longest tag_names list of a direct grid-fetcher call
MaxMatches     == 2   \* most matches one search call returns
MaxHeatmapRows == 1   \* most points of a grid in a direct grid-fetcher call
MaxRows        == 2   \* most points of a grid in a direct wrapper call
MaxTags        == 2   \* longest tag_names list of an analysis
MaxCriteria    == 2   \* most entries of a filter_criteria dict
MaxFilterCalls == 1   \* most location groups saved in one session
MaxAnalyses    == 2   \* most analyses saved in one session

\* --------------------------------------------------------------- constants
NaN == 9999
Bad == 9998
AFFINITY_THRESHOLD   == 60
POPULARITY_THRESHOLD == 60
WIN_THRESHOLD  == 2
LOSE_THRESHOLD == 0 - 2
MAX_ATTEMPTS   == 2
HISTORY_LIMIT  == 10

None == "None"

\* --------------------------------------------------------- sequence tools
RECURSIVE FlatMap(_, _)
\* concatenation of F[s[1]], F[s[2]], ... where F maps an element to a sequence
FlatMap(F, s) == IF s = <<>> THEN <<>> ELSE F[Head(s)] \o FlatMap(F, Tail(s))

SeqsUpTo(S, n) == UNION {[1..k -> S] : k \in 0..n}

Range(s) == {s[i] : i \in 1..Len(s)}


\* ------------------------------------------------- inputs and the provider
EntityNames == {"Alice", "Bob"}
TagNames    == {"economy", "health care"}
EntityIds   == {"e1", "e2"}
TagIds      == {"t1"}
Demographics == { [age |-> None,       gender |-> None],
                  [age |-> "36_to_55", gender |-> "female"],
                  [age |-> "13_to_17", gender |-> None],
                  [age |-> None,       gender |-> "other"] }
AnalysisDemographics == { [age |-> None,       gender |-> None],
                          [age |-> "13_to_17", gender |-> None],
                          [age |-> None,       gender |-> "other"] }
WrapperDemographics == { [age |-> None, gender |-> None],
                         [age |-> "13_to_17", gender |-> "other"] }

\* what client.search_entities can do: raise, or answer with up to limit matches
EntitySearchResults ==
    {[kind |-> "throw", success |-> FALSE, entities |-> <<>>],
     [kind |-> "ok",    success |-> FALSE, entities |-> <<>>]}
    \cup {[kind |-> "ok", success |-> TRUE, entities |-> e] : e \in SeqsUpTo(EntityIds, MaxMatches)}

\* what client.search_tags can do; a returned tag may lack an id
TagSearchResults ==
    {[kind |-> "throw", success |-> FALSE, tags |-> <<>>],
     [kind |-> "ok",    success |-> FALSE, tags |-> <<>>]}
    \cup {[kind |-> "ok", success |-> TRUE, tags |-> t] : t \in SeqsUpTo(TagIds \cup {None}, MaxMatches)}

\* one raw point of the provider's heatmap answer
RawPoint(lat, lon, aff, pop) ==
    [latitude |-> lat, longitude |-> lon, affinity |-> aff, popularity |-> pop]

\* what client.get_heatmap_analysis can do with the grids in G
GridResults(G) ==
    {[kind |-> "throw", success |-> FALSE, heatmap |-> <<>>],
     [kind |-> "ok",    success |-> FALSE, heatmap |-> <<>>]}
    \cup {[kind |-> "ok", success |-> TRUE, heatmap |-> g] : g \in G}

\* grids of a direct grid-fetcher call: every kind of affinity and popularity
HeatmapPoints ==
    {RawPoint(10, 20, a, p) : a \in {59, 60, NaN, Bad}, p \in {59, 60, NaN, Bad}}
HeatmapGrids == SeqsUpTo(HeatmapPoints, MaxHeatmapRows)

\* entity grids of a direct wrapper call: two locations, two popularities at
\* the first, a row without popularity, one whose popularity is not a number,
\* one without affinity
JoinPoints ==
    {RawPoint(10, 20, 60, p) : p \in {50, 53, NaN, Bad}}
    \cup {RawPoint(11, 20, 60, 50), RawPoint(11, 20, NaN, 50)}
JoinGrids == SeqsUpTo(JoinPoints, MaxRows)

\* audience and tag grids of a direct wrapper call
SinglePoints ==
    {RawPoint(10, 20, 60, 50), RawPoint(11, 20, 59, 52), RawPoint(NaN, 20, 60, 50),
     RawPoint(10, NaN, 60, 50), RawPoint(10, 20, 60, NaN), RawPoint(10, 20, Bad, 50)}
SingleGrids == SeqsUpTo(SinglePoints, MaxRows)

\* the provider's data behind an analysis.  Candidate and opponent cover two
\* locations; the political base covers the first one, two and three points
\* either side of the candidate, or both; an issue covers one or both.
A10 == RawPoint(10, 20, 60, 50)
A11 == RawPoint(11, 20, 59, 50)
AnalysisEntityGrids ==
    {<<>>, <<A10>>, <<A11>>, <<A10, A11>>, <<RawPoint(10, 20, 60, 53)>>,
     <<RawPoint(10, 20, 60, 52), A11>>}
AnalysisBaseGrids ==
    {<<>>} \cup {<<RawPoint(10, 20, 60, p)>> : p \in {47, 48, 52, 53}}
    \cup {<<RawPoint(10, 20, 60, 50), RawPoint(11, 20, 60, 50)>>}
AnalysisTagGrids ==
    {<<>>, <<RawPoint(10, 20, 60, 50)>>,
     <<RawPoint(10, 20, 60, 50), RawPoint(11, 20, 60, 54)>>,
     <<RawPoint(10, 20, 60, 50), RawPoint(11, 20, 60, 55)>>}

\* the candidate's grids behind a saved composite table: points of three
\* strategy quadrants and one without affinity
FilterRow == <<RawPoint(10, 20, 60, 60), RawPoint(11, 20, 60, 59),
               RawPoint(12, 20, 59, 60), RawPoint(13, 20, NaN, 60)>>
FilterGrids == {<<FilterRow[1]>>, <<FilterRow[3]>>, <<FilterRow[4]>>, <<FilterRow[1], FilterRow[2]>>, <<FilterRow[2], FilterRow[3]>>, <<FilterRow[1], FilterRow[2], FilterRow[3], FilterRow[4]>>}
\* the opponent's and the political base's grid cover every location
FilterOthers == <<RawPoint(10, 20, 60, 58), RawPoint(11, 20, 60, 58),
                  RawPoint(12, 20, 60, 58), RawPoint(13, 20, 60, 58)>>
\* the issue grid covers two of them
FilterIssue == <<RawPoint(10, 20, 60, 60), RawPoint(11, 20, 60, 58)>>

\* the grids the provider can answer with, by the data it holds and the signal
ProviderGrids(world, kind) ==
    CASE world = "heatmap" -> HeatmapGrids
      [] world = "join"    -> IF kind = "entity" THEN JoinGrids ELSE SingleGrids
      [] world = "analysis" ->
           IF kind = "entity" THEN AnalysisEntityGrids
           ELSE IF kind = "audience" THEN AnalysisBaseGrids ELSE AnalysisTagGrids
      [] world = "session" ->
           IF kind = "audience" THEN {<<RawPoint(10, 20, 60, 47)>>} ELSE {<<A10>>}
      [] OTHER -> {<<>>}

\* the table behind a session in which locations are filtered again and again
HistoryGrid == <<FilterRow[1], FilterRow[2], FilterRow[3], FilterRow[4]>>

VARIABLES
    entry,        \* public entry point the outside caller is in, or None
    outcome,      \* what the outside caller got back from its last call
    qloo,         \* which data the provider holds (see ProviderGrids)
    \* ---- get_complete_heatmap_analysis
    hm_pc,        \* position in the function
    hm_args,      \* its arguments
    hm_i,         \* index of the name being resolved
    resolution,   \* result["resolution"]
    errors,       \* result["errors"]
    calls,        \* network calls made by this invocation, in order
    hm_ret,       \* what the function gave its caller
    \* ---- the retry wrappers of subtools.py
    w_pc,         \* position in the wrapper
    w_fn,         \* which wrapper runs
    w_args,       \* its arguments
    attempt,      \* the loop variable of  for attempt in range(2)
    fetched,      \* the grids the fetcher returned in this attempt, in order
    candidate_df, \* local of get_candidate_base, after dropna
    opponent_df,  \* local of get_candidate_base, after rename and dropna
    w_events,     \* attempts, exceptions and sleeps of this call, in order
    w_ret,        \* what the wrapper gave its caller
    \* ---- create_candidate_analysis
    cca_pc,            \* position in the function
    cca_args,          \* its arguments
    opponent_analysis, \* the candidate/opponent join
    base_analysis,     \* the political-base grid
    tag_analysis_df,   \* the issue grids, concatenated
    tag_i,             \* index of the tag being fetched
    df4,               \* the composite table
    artifacts,         \* the artifact service: filename -> saved versions
    state,             \* tool_context.state
    fetch_log,         \* the wrapper calls of the current analysis, in order
    \* ---- the dashboard
    frames,            \* the two tables handed to process_data / process_entity_data
    \* ---- filter_campaign_locations
    fcl_pc,            \* position in the function
    fcl_args,          \* its arguments
    fcl_ret            \* the dict it returns

hm_vars == <<hm_pc, hm_args, hm_i, resolution, errors, calls, hm_ret>>
w_vars == <<w_pc, w_fn, w_args, attempt, fetched, candidate_df, opponent_df, w_events, w_ret>>
\* everything outside the grid fetcher's frame
cca_vars == <<cca_pc, cca_args, opponent_analysis, base_analysis, tag_analysis_df, tag_i,
              df4, artifacts, state, fetch_log>>
\* everything outside the wrappers' frames
fcl_vars == <<fcl_pc, fcl_args, fcl_ret>>
caller_vars == <<entry, outcome, qloo, cca_vars, frames, fcl_vars>>
\* everything outside the grid fetcher's frame
non_hm_vars == <<caller_vars, w_vars>>
vars == <<entry, outcome, qloo, hm_vars, w_vars, cca_vars, frames, fcl_vars>>

NoOutcome == [fn |-> None, kind |-> "none", rows |-> <<>>, status |-> None, message |-> None,
              suggestions |-> 0, locations |-> <<>>, history |-> <<>>, current |-> None]

\* the caller got a table, a dict without status, or an exception
Plain(fn, ret) == [NoOutcome EXCEPT !.fn = fn, !.kind = ret.kind, !.rows = ret.rows]

\* ===================================================================
\* get_complete_heatmap_analysis                   (src/src/heatmap.py)
\* ===================================================================
NoReturn == [kind |-> "none", rows |-> <<>>]
NoArgs   == [entity_names |-> <<>>, tag_names |-> <<>>, audience_ids |-> <<>>,
             age |-> None, gender |-> None]

\* result["resolution"] as the function starts
EmptyResolution ==
    [entities |-> <<>>, tags |-> <<>>, entity_ids |-> <<>>, tag_ids |-> <<>>]

\* pd.to_numeric(errors='coerce'): a number stays, anything else becomes NaN
to_numeric(v) == IF v = NaN \/ v = Bad THEN NaN ELSE v

\* quadrants whose high side starts above the threshold
segment_strict(aff, pop) ==
    IF aff = NaN \/ pop = NaN THEN "Unknown"
    ELSE IF aff > AFFINITY_THRESHOLD /\ pop > POPULARITY_THRESHOLD THEN "HA-HP"
    ELSE IF aff > AFFINITY_THRESHOLD /\ pop <= POPULARITY_THRESHOLD THEN "HA-LP"
    ELSE IF aff <= AFFINITY_THRESHOLD /\ pop > POPULARITY_THRESHOLD THEN "LA-HP"
    ELSE "LA-LP"

\* np.select over the four quadrant conditions, default 'Unknown'
segment(aff, pop) ==
    IF aff = NaN \/ pop = NaN THEN "Unknown"
    ELSE IF aff >= AFFINITY_THRESHOLD /\ pop >= POPULARITY_THRESHOLD THEN "HA-HP"
    ELSE IF aff >= AFFINITY_THRESHOLD /\ pop <  POPULARITY_THRESHOLD THEN "HA-LP"
    ELSE IF aff <  AFFINITY_THRESHOLD /\ pop >= POPULARITY_THRESHOLD THEN "LA-HP"
    ELSE IF aff <  AFFINITY_THRESHOLD /\ pop <  POPULARITY_THRESHOLD THEN "LA-LP"
    ELSE "Unknown"

\* df['segment'].map(strategy_map): a segment that is no key maps to NaN
strategy_map(seg) ==
    CASE seg = "HA-HP" -> "Rally the Base"
      [] seg = "HA-LP" -> "Hidden Goldmine"
      [] seg = "LA-HP" -> "Bring Them Over"
      [] seg = "LA-LP" -> "Deep Conversion"
      [] OTHER         -> "NaN"

\* one row of the returned table
annotate(p) ==
    LET a == to_numeric(p.affinity)
        q == to_numeric(p.popularity)
    IN [latitude |-> p.latitude, longitude |-> p.longitude,
        affinity |-> a, popularity |-> q,
        segment |-> segment(a, q), strategy |-> strategy_map(segment(a, q))]

\* hotspot_score multiplies the raw values: None or a string raises TypeError
hotspot_raises(p) == p.affinity = Bad \/ p.popularity = Bad

\* what the function hands to its caller, given what the grid call did
heatmap_return(r) ==
    IF r.kind = "throw"
      THEN [kind |-> "dict", rows |-> <<>>]      \* return result
    ELSE IF ~r.success
      THEN [kind |-> "raise", rows |-> <<>>]     \* return df, df unbound
    ELSE IF \E i \in 1..Len(r.heatmap) : hotspot_raises(r.heatmap[i])
      THEN [kind |-> "raise", rows |-> <<>>]     \* caught, then df unbound
    ELSE IF r.heatmap = <<>>
      THEN [kind |-> "df", rows |-> <<>>]        \* KeyError caught, df is empty
    ELSE [kind |-> "df", rows |-> [i \in 1..Len(r.heatmap) |-> annotate(r.heatmap[i])]]

\* QlooSignals is built only for demographics or audiences
signals(a) ==
    [present |-> (a.age # None \/ a.gender # None \/ a.audience_ids # <<>>),
     age |-> a.age, gender |-> a.gender, audience_ids |-> a.audience_ids]

\* which of the provider's grids answer this query
signal_kind(a) ==
    IF a.audience_ids # <<>> THEN "audience"
    ELSE IF a.tag_names # <<>> THEN "tag" ELSE "entity"

first_phase(a) ==
    IF a.entity_names # <<>> THEN "entities"
    ELSE IF a.tag_names # <<>> THEN "tags" ELSE "grid"

\* the function is entered with arguments a
hm_invoke(a) ==
    /\ hm_pc' = first_phase(a)
    /\ hm_args' = a
    /\ hm_i' = 1
    /\ resolution' = EmptyResolution
    /\ errors' = <<>>
    /\ calls' = <<>>
    /\ hm_ret' = NoReturn

\* the caller has taken the return value: the frame is gone
hm_release ==
    /\ hm_pc' = "idle"
    /\ hm_args' = NoArgs
    /\ hm_i' = 1
    /\ resolution' = EmptyResolution
    /\ errors' = <<>>
    /\ calls' = <<>>
    /\ hm_ret' = NoReturn

\* what the log keeps of a provider answer
answer_of(r, items) ==
    IF r.kind = "throw" THEN "throw"
    ELSE IF ~r.success THEN "fail"
    ELSE IF items = <<>> THEN "empty" ELSE "items"

\* one search call in the log; the matches themselves are kept only for a
\* direct call of the function
search_call(world, op, name, r, items) ==
    [op |-> op, arg |-> name, answer |-> answer_of(r, items),
     items |-> IF world = "heatmap" /\ answer_of(r, items) = "items" THEN items ELSE <<>>]

\* a grid endpoint called once per page of the answer
grid_calls_paged(a, r) ==
    << [op |-> "get_heatmap_analysis", arg |-> signals(a), answer |-> answer_of(r, r.heatmap),
        items |-> <<>>],
       [op |-> "get_heatmap_analysis", arg |-> signals(a), answer |-> answer_of(r, r.heatmap),
        items |-> <<>>] >>

\* Step 4: the grid endpoint is called once with all parameters
grid_calls(a, r) ==
    << [op |-> "get_heatmap_analysis", arg |-> signals(a), answer |-> answer_of(r, r.heatmap),
        items |-> <<>>] >>

\* Step 1, one pass of the loop over entity_names
hm_search_entities ==
    /\ hm_pc = "entities"
    /\ \E r \in EntitySearchResults :
         LET name == hm_args.entity_names[hm_i] IN
         /\ calls' = Append(calls, search_call(qloo, "search_entities", name, r, r.entities))
         /\ IF r.kind = "throw"
              THEN /\ resolution' = [resolution EXCEPT !.entities =
                        (name :> [entity_id |-> None, error |-> "exception", success |-> FALSE]) @@ @]
                   /\ errors' = Append(errors, <<"Error resolving entity", name>>)
            ELSE IF r.success /\ r.entities # <<>>
              THEN /\ resolution' = [resolution EXCEPT
                        !.entity_ids = Append(@, r.entities[1]),
                        !.entities = (name :> [entity_id |-> r.entities[1], error |-> None,
                                               success |-> TRUE]) @@ @]
                   /\ errors' = errors
            ELSE   /\ resolution' = [resolution EXCEPT !.entities =
                        (name :> [entity_id |-> None, error |-> "Entity not found",
                                  success |-> FALSE]) @@ @]
                   /\ errors' = Append(errors, <<"Could not resolve entity", name>>)
    /\ IF hm_i < Len(hm_args.entity_names)
         THEN hm_i' = hm_i + 1 /\ hm_pc' = "entities"
         ELSE hm_i' = 1 /\ hm_pc' = (IF hm_args.tag_names # <<>> THEN "tags" ELSE "grid")
    /\ UNCHANGED <<hm_args, hm_ret>>
    /\ UNCHANGED non_hm_vars

\* the first returned tag only, if it has an id
found_tags_first_only(name, tags, i) ==
    IF tags # <<>> /\ tags[1] # None
      THEN << [key |-> <<name, 0>>, tag_id |-> tags[1], search_term |-> name, match_rank |-> 1] >>
      ELSE <<>>

\* the records one tag search adds: every returned tag that has an id
RECURSIVE found_tags(_, _, _)
found_tags(name, tags, i) ==
    IF i > Len(tags) THEN <<>>
    ELSE (IF tags[i] # None
            THEN << [key |-> <<name, i - 1>>, tag_id |-> tags[i], search_term |-> name,
                     match_rank |-> i] >>
            ELSE <<>>) \o found_tags(name, tags, i + 1)

RECURSIVE put_tags(_, _)
put_tags(recs, d) ==
    IF recs = <<>> THEN d
    ELSE put_tags(Tail(recs),
           (Head(recs).key :> [tag_id |-> Head(recs).tag_id, error |-> None, success |-> TRUE,
                               search_term |-> Head(recs).search_term,
                               match_rank |-> Head(recs).match_rank]) @@ d)

\* a failure recorded without its reason
tag_failure_silent(reason) ==
    [tag_id |-> None, error |-> None, success |-> FALSE, search_term |-> None, match_rank |-> 0]

tag_failure(reason) ==
    [tag_id |-> None, error |-> reason, success |-> FALSE, search_term |-> None, match_rank |-> 0]

\* Step 2, one pass of the loop over tag_names
hm_search_tags ==
    /\ hm_pc = "tags"
    /\ \E r \in TagSearchResults :
         LET name  == hm_args.tag_names[hm_i]
             found == found_tags(name, r.tags, 1)
         IN
         /\ calls' = Append(calls, search_call(qloo, "search_tags", name, r, r.tags))
         /\ IF r.kind = "throw"
              THEN /\ resolution' = [resolution EXCEPT !.tags =
                        (<<name, 0>> :> tag_failure("exception")) @@ @]
                   /\ errors' = Append(errors, <<"Error resolving tag", name>>)
            ELSE IF r.success /\ r.tags # <<>>
              THEN IF found = <<>>
                     THEN /\ resolution' = [resolution EXCEPT !.tags =
                               (<<name, 0>> :> tag_failure("No valid tag ID found in results")) @@ @]
                          /\ errors' = Append(errors, <<"Tag found but no valid ID", name>>)
                     ELSE /\ resolution' = [resolution EXCEPT
                               !.tag_ids = @ \o [i \in 1..Len(found) |-> found[i].tag_id],
                               !.tags = put_tags(found, @)]
                          /\ errors' = errors
            ELSE   /\ resolution' = [resolution EXCEPT !.tags =
                        (<<name, 0>> :> tag_failure("Tag not found")) @@ @]
                   /\ errors' = Append(errors, <<"Could not resolve tag", name>>)
    /\ IF hm_i < Len(hm_args.tag_names)
         THEN hm_i' = hm_i + 1 /\ hm_pc' = "tags"
         ELSE hm_i' = 1 /\ hm_pc' = "grid"
    /\ UNCHANGED <<hm_args, hm_ret>>
    /\ UNCHANGED non_hm_vars

\* Steps 3 to 5: build the signals, call the grid endpoint, process, return
hm_get_heatmap_analysis ==
    /\ hm_pc = "grid"
    /\ \E r \in GridResults(ProviderGrids(qloo, signal_kind(hm_args))) :
         /\ calls' = calls \o grid_calls(hm_args, r)
         /\ hm_ret' = heatmap_return(r)
         /\ errors' = IF r.kind = "throw" THEN Append(errors, <<"Heatmap API timeout/error", None>>)
                      ELSE IF ~r.success THEN Append(errors, <<"Heatmap API call failed", None>>)
                      ELSE IF heatmap_return(r).kind = "df" /\ r.heatmap # <<>> THEN errors
                      ELSE Append(errors, <<"Function error", None>>)
    /\ hm_pc' = "returned"
    /\ UNCHANGED <<hm_args, hm_i, resolution>>
    /\ UNCHANGED non_hm_vars

\* ===================================================================
\* pandas operations used by the joins
\* ===================================================================
\* DataFrame.dropna(subset=...)
dropna(rows, subset) == SelectSeq(rows, LAMBDA r : \A c \in subset : r[c] # NaN)

\* DataFrame.rename(columns={old: new})
rename(rows, old, new) ==
    [i \in 1..Len(rows) |->
        [c \in (DOMAIN rows[i] \ {old}) \cup {new} |->
            IF c = new THEN rows[i][old] ELSE rows[i][c]]]

\* df[[columns]]
select(rows, columns) == [i \in 1..Len(rows) |-> [c \in columns |-> rows[i][c]]]

\* a join that snaps coordinates: keys one unit apart match
matching_near(l, R, on) ==
    SelectSeq(R, LAMBDA r : \A c \in on :
                 r[c] = l[c] \/ (r[c] # NaN /\ l[c] # NaN /\ r[c] - l[c] \in {-1, 1}))

\* the rows of R whose key columns equal those of l, in R's order
matching(l, R, on) == SelectSeq(R, LAMBDA r : \A c \in on : r[c] = l[c])

\* how='left' in place of how='inner': against a non-empty right table a
\* left row without a match is kept, its right columns NaN
merge_inner_as_left(L, R, on) ==
    FlatMap([l \in Range(L) |->
               IF R # <<>> /\ matching(l, R, on) = <<>>
                 THEN << l @@ [c \in DOMAIN R[1] \ on |-> NaN] >>
                 ELSE [i \in 1..Len(matching(l, R, on)) |-> l @@ matching(l, R, on)[i]]], L)

\* pd.merge(L, R, on=on, how='inner'): each left row with each of its matches
merge_inner(L, R, on) ==
    FlatMap([l \in Range(L) |->
               [i \in 1..Len(matching(l, R, on)) |-> l @@ matching(l, R, on)[i]]], L)

JOIN_KEY == {"latitude", "longitude"}

\* a lead only: zero where b is ahead
net_of_leader(a, b) == IF a = NaN \/ b = NaN THEN NaN ELSE IF a > b THEN a - b ELSE 0

\* (a - b) * 100 on columns that may hold NaN
net(a, b) == IF a = NaN \/ b = NaN THEN NaN ELSE a - b

\* the thresholds themselves counted as leading and trailing
select_status_inclusive(n, win, lose, default) ==
    IF n # NaN /\ n >= WIN_THRESHOLD THEN win
    ELSE IF n # NaN /\ n <= LOSE_THRESHOLD THEN lose
    ELSE default

\* np.select([net > WIN_THRESHOLD, net < LOSE_THRESHOLD], [win, lose], default)
\* a comparison with NaN is False
select_status(n, win, lose, default) ==
    IF n # NaN /\ n > WIN_THRESHOLD THEN win
    ELSE IF n # NaN /\ n < LOSE_THRESHOLD THEN lose
    ELSE default

\* ===================================================================
\* the dashboard's joins   (src/app_components/heatmap_visuals.py, src/app.py)
\* ===================================================================
\* process_data(conservative_df, progressive_df)
process_data(conservative_df, progressive_df) ==
    LET conservative_df1 == rename(rename(conservative_df, "affinity", "conservative_affinity"),
                                   "popularity", "conservative_popularity")
        progressive_df1  == rename(rename(progressive_df, "affinity", "progressive_affinity"),
                                   "popularity", "progressive_popularity")
        df2 == merge_inner(conservative_df1,
                           select(progressive_df1, {"latitude", "longitude",
                                  "progressive_affinity", "progressive_popularity"}),
                           JOIN_KEY)
    IN [i \in 1..Len(df2) |->
          df2[i] @@ [conservative_net_popularity |->
                         net(df2[i].conservative_popularity, df2[i].progressive_popularity),
                     progressive_net_popularity |->
                         net(df2[i].progressive_popularity, df2[i].conservative_popularity)]]

\* process_entity_data(entity1_df, entity2_df)
process_entity_data(entity1_df, entity2_df) ==
    LET entity1_df1 == rename(rename(entity1_df, "affinity", "entity1_affinity"),
                              "popularity", "entity1_popularity")
        entity2_df1 == rename(rename(entity2_df, "affinity", "entity2_affinity"),
                              "popularity", "entity2_popularity")
        df_combined == merge_inner(entity1_df1,
                                   select(entity2_df1, {"latitude", "longitude",
                                          "entity2_affinity", "entity2_popularity"}),
                                   JOIN_KEY)
        with_net == [i \in 1..Len(df_combined) |->
                       df_combined[i] @@ [entity1_net_popularity |->
                           to_numeric(net(df_combined[i].entity1_popularity,
                                          df_combined[i].entity2_popularity))]]
    IN dropna(with_net, {"entity1_net_popularity"})

\* ===================================================================
\* the retry wrappers   (src/resonance_agent/political_agent/subtools.py)
\* ===================================================================
Wrappers == {"get_candidate_base", "get_political_base", "get_targeted_base"}

NoWArgs == [candidate_name |-> None, opponent_name |-> None, candidate_base |-> None,
            tag_name |-> None, age |-> None, gender |-> None]

EmptyDataFrame == [kind |-> "df", rows |-> <<>>]

\* candidate_base.lower() picks the audience; anything else is the center
base_audience(candidate_base) ==
    IF candidate_base \in {"progressive", "Progressive"}
      THEN <<"urn:audience:political_preferences:politically_progressive">>
    ELSE IF candidate_base \in {"conservative", "Conservative"}
      THEN <<"urn:audience:political_preferences:politically_conservative">>
    ELSE <<"urn:audience:political_preferences:center">>

\* "tag_" + tag_name.replace(' ', '_')
tag_column(tag_name) ==
    CASE tag_name = "economy"     -> "tag_economy"
      [] tag_name = "health care" -> "tag_health_care"
      [] OTHER                    -> "tag_"

\* the arguments of the first grid fetch of an attempt
first_fetch(fn, a) ==
    CASE fn = "get_candidate_base" ->
           [entity_names |-> <<a.candidate_name>>, tag_names |-> <<>>, audience_ids |-> <<>>,
            age |-> a.age, gender |-> a.gender]
      [] fn = "get_political_base" ->
           [entity_names |-> <<>>, tag_names |-> <<>>,
            audience_ids |-> base_audience(a.candidate_base),
            age |-> a.age, gender |-> a.gender]
      [] OTHER ->
           [entity_names |-> <<>>, tag_names |-> <<a.tag_name>>, audience_ids |-> <<>>,
            age |-> a.age, gender |-> a.gender]

\* merged_df with net_popularity and popularity_status
popularity_status(merged) ==
    [i \in 1..Len(merged) |->
        LET n == net(merged[i].popularity, merged[i].opponent_popularity) IN
        merged[i] @@ [net_popularity |-> n,
                      popularity_status |-> select_status(n, "Leading Opponent",
                                              "Trailing Opponent", "Similar to Opponent")]]

\* a handler that sleeps and goes round again after every failure
retries_always(att) == att >= 0

\* if attempt == 0: sleep and go round again
retries(att) == att = 0

\* a wrapper is entered
w_invoke(fn, a) ==
    /\ w_pc' = "attempt"
    /\ w_fn' = fn
    /\ w_args' = a
    /\ attempt' = 0
    /\ fetched' = <<>>
    /\ candidate_df' = <<>>
    /\ opponent_df' = <<>>
    /\ w_events' = <<>>
    /\ w_ret' = NoReturn

\* the caller has taken the wrapper's return value
w_release ==
    /\ w_pc' = "idle"
    /\ w_fn' = None
    /\ w_args' = NoWArgs
    /\ attempt' = 0
    /\ fetched' = <<>>
    /\ candidate_df' = <<>>
    /\ opponent_df' = <<>>
    /\ w_events' = <<>>
    /\ w_ret' = NoReturn

\* a handler that lets the second failure out
w_except_reraise ==
    /\ w_events' = Append(w_events, "raise")
    /\ IF retries(attempt)
         THEN w_pc' = "sleep" /\ w_ret' = w_ret
         ELSE w_pc' = "returned" /\ w_ret' = [kind |-> "raise", rows |-> <<>>]
    /\ attempt' = attempt

\* except Exception: sleep before the second attempt, else give the empty table
w_except ==
    /\ w_events' = Append(w_events, "raise")
    /\ IF retries(attempt)
         THEN w_pc' = "sleep" /\ w_ret' = w_ret
         ELSE w_pc' = "returned" /\ w_ret' = EmptyDataFrame
    /\ attempt' = attempt

\* return rows
w_return(rows) ==
    /\ w_pc' = "returned"
    /\ w_ret' = [kind |-> "df", rows |-> rows]
    /\ w_events' = w_events
    /\ attempt' = attempt

\* one pass of  for attempt in range(2): the try block starts with a grid fetch
w_attempt ==
    /\ w_pc = "attempt"
    /\ attempt < MAX_ATTEMPTS
    /\ hm_invoke(first_fetch(w_fn, w_args))
    /\ w_pc' = "fetch"
    /\ w_events' = Append(w_events, "attempt")
    /\ fetched' = <<>>
    /\ candidate_df' = <<>>
    /\ opponent_df' = <<>>
    /\ UNCHANGED <<w_fn, w_args, attempt, w_ret>>
    /\ UNCHANGED caller_vars

\* time.sleep(2), then the loop goes on
w_sleep ==
    /\ w_pc = "sleep"
    /\ w_events' = Append(w_events, "sleep")
    /\ attempt' = attempt + 1
    /\ w_pc' = "attempt"
    /\ UNCHANGED <<w_fn, w_args, fetched, candidate_df, opponent_df, w_ret>>
    /\ UNCHANGED caller_vars
    /\ UNCHANGED hm_vars

\* a fetch that raised, or gave the result dict: .empty raises AttributeError
unusable(ret) == ret.kind # "df"

\* get_candidate_base, from the candidate's grid to the opponent's fetch
get_candidate_base_candidate ==
    /\ w_fn = "get_candidate_base" /\ w_pc = "fetch" /\ hm_pc = "returned"
    /\ LET clean == dropna(hm_ret.rows, {"popularity", "latitude", "longitude"}) IN
       IF unusable(hm_ret)
         THEN w_except /\ hm_release /\ UNCHANGED <<fetched, candidate_df>>
       ELSE IF hm_ret.rows = <<>> \/ clean = <<>>
         THEN /\ w_return(<<>>) /\ hm_release
              /\ fetched' = Append(fetched, hm_ret.rows)
              /\ candidate_df' = clean
       ELSE /\ candidate_df' = clean
            /\ fetched' = Append(fetched, hm_ret.rows)
            /\ hm_invoke([entity_names |-> <<w_args.opponent_name>>, tag_names |-> <<>>,
                          audience_ids |-> <<>>, age |-> w_args.age, gender |-> w_args.gender])
            /\ w_pc' = "fetch_opponent"
            /\ UNCHANGED <<w_events, attempt, w_ret>>
    /\ UNCHANGED <<w_fn, w_args, opponent_df>>
    /\ UNCHANGED caller_vars

\* get_candidate_base, from the opponent's grid to the return
get_candidate_base_opponent ==
    /\ w_fn = "get_candidate_base" /\ w_pc = "fetch_opponent" /\ hm_pc = "returned"
    /\ LET opp == dropna(select(rename(hm_ret.rows, "popularity", "opponent_popularity"),
                                {"latitude", "longitude", "opponent_popularity"}),
                         {"latitude", "longitude", "opponent_popularity"})
           merged_df == merge_inner(candidate_df, opp, JOIN_KEY)
       IN
       IF unusable(hm_ret)
         THEN w_except /\ UNCHANGED <<fetched, opponent_df>>
       ELSE IF hm_ret.rows = <<>>
         THEN w_return(<<>>) /\ fetched' = Append(fetched, hm_ret.rows) /\ opponent_df' = <<>>
       ELSE /\ fetched' = Append(fetched, hm_ret.rows)
            /\ opponent_df' = opp
            /\ IF opp = <<>> \/ merged_df = <<>>
                 THEN w_return(<<>>)
                 ELSE w_return(popularity_status(merged_df))
    /\ hm_release
    /\ UNCHANGED <<w_fn, w_args, candidate_df>>
    /\ UNCHANGED caller_vars

\* get_political_base, from the grid to the return
get_political_base_body ==
    /\ w_fn = "get_political_base" /\ w_pc = "fetch" /\ hm_pc = "returned"
    /\ LET df1 == dropna(hm_ret.rows, {"popularity", "latitude", "longitude"}) IN
       IF unusable(hm_ret)
         THEN w_except /\ UNCHANGED fetched
       ELSE /\ fetched' = Append(fetched, hm_ret.rows)
            /\ IF hm_ret.rows = <<>> \/ df1 = <<>>
                 THEN w_return(<<>>)
                 ELSE w_return(select(rename(df1, "popularity", "base_popularity"),
                                      {"latitude", "longitude", "base_popularity"}))
    /\ hm_release
    /\ UNCHANGED <<w_fn, w_args, candidate_df, opponent_df>>
    /\ UNCHANGED caller_vars

\* get_targeted_base, from the grid to the return
get_targeted_base_body ==
    /\ w_fn = "get_targeted_base" /\ w_pc = "fetch" /\ hm_pc = "returned"
    /\ LET df1 == dropna(hm_ret.rows, {"popularity", "latitude", "longitude"})
           named == [i \in 1..Len(df1) |->
                       [latitude |-> df1[i].latitude, longitude |-> df1[i].longitude,
                        tag_name |-> tag_column(w_args.tag_name),
                        tag_popularity |-> df1[i].popularity]]
       IN
       IF unusable(hm_ret)
         THEN w_except /\ UNCHANGED fetched
       ELSE /\ fetched' = Append(fetched, hm_ret.rows)
            /\ IF hm_ret.rows = <<>> \/ df1 = <<>>
                 THEN w_return(<<>>)
                 ELSE w_return(named)
    /\ hm_release
    /\ UNCHANGED <<w_fn, w_args, candidate_df, opponent_df>>
    /\ UNCHANGED caller_vars

\* ===================================================================
\* create_candidate_analysis   (src/resonance_agent/political_agent/tools.py)
\* ===================================================================
valid_ages == {"24_and_younger", "25_to_29", "30_to_34", "35_and_younger",
               "36_to_55", "35_to_44", "45_to_54", "55_and_older"}
valid_genders == {"male", "female"}

NoCArgs == [candidate_name |-> None, opponent_name |-> None, candidate_base |-> None,
            location |-> None, age |-> None, gender |-> None, tag_names |-> <<>>]

EmptyState == [candidate_analysis_artifact |-> None, analysis_metadata |-> <<>>,
               identified_locations |-> <<>>, location_history |-> <<>>,
               campaign_inputs |-> <<>>, candidate_name |-> None, candidate_base |-> None]

\* the three checks that raise ValueError before the try block
rejects(a) ==
    \/ a.candidate_name = "" \/ a.opponent_name = "" \/ a.candidate_base = "" \/ a.location = ""
    \/ (a.age # None /\ a.age \notin valid_ages)
    \/ (a.gender # None /\ a.gender \notin valid_genders)

\* how='inner' in place of how='left': a left row without a match is lost
merge_left_as_inner(L, R, on, columns) == merge_inner(L, R, on)

\* pd.merge(L, R, on=on, how='left'); columns are R's columns other than the key
merge_left(L, R, on, columns) ==
    FlatMap([l \in Range(L) |->
               IF matching(l, R, on) = <<>>
                 THEN << l @@ [c \in columns |-> NaN] >>
                 ELSE [i \in 1..Len(matching(l, R, on)) |-> l @@ matching(l, R, on)[i]]], L)

key_of(r) == <<r.latitude, r.longitude>>

\* the keys of a set in index order
RECURSIVE sorted_keys(_)
sorted_keys(K) ==
    IF K = {} THEN <<>>
    ELSE LET m == CHOOSE k \in K : \A j \in K :
                     k[1] < j[1] \/ (k[1] = j[1] /\ k[2] <= j[2])
         IN <<m>> \o sorted_keys(K \ {m})

\* aggfunc='first': the first non-missing value of the group, NaN without one
first_value(rows, k, column) ==
    LET group == SelectSeq(rows, LAMBDA r : key_of(r) = k /\ r.tag_name = column
                                            /\ r.tag_popularity # NaN)
    IN IF group = <<>> THEN NaN ELSE group[1].tag_popularity

\* pivot_table(index=[latitude, longitude], columns='tag_name',
\*             values='tag_popularity', aggfunc='first').reset_index()
pivot_table(rows) ==
    LET keys    == sorted_keys({key_of(rows[i]) : i \in 1..Len(rows)})
        columns == {rows[i].tag_name : i \in 1..Len(rows)}
    IN [i \in 1..Len(keys) |->
          [latitude |-> keys[i][1], longitude |-> keys[i][2]]
          @@ [c \in columns |-> first_value(rows, keys[i], c)]]

\* the columns a table has: those of its first row
columns_of(rows) == IF rows = <<>> THEN {} ELSE DOMAIN rows[1]

TagColumns == {tag_column(t) : t \in TagNames}
\* [col for col in df4.columns if col.startswith('tag_')]
tag_cols(rows) == columns_of(rows) \cap TagColumns

net_col(tag_col) ==
    CASE tag_col = "tag_economy"     -> "net_economy_popularity"
      [] tag_col = "tag_health_care" -> "net_health_care_popularity"
      [] OTHER                       -> "net__popularity"
base_col(tag_col) ==
    CASE tag_col = "tag_economy"     -> "base_economy_popularity"
      [] tag_col = "tag_health_care" -> "base_health_care_popularity"
      [] OTHER                       -> "base__popularity"
status_col(tag_col) ==
    CASE tag_col = "tag_economy"     -> "issue_economy_popularity_status"
      [] tag_col = "tag_health_care" -> "issue_health_care_popularity_status"
      [] OTHER                       -> "issue__popularity_status"

RECURSIVE column_sum(_, _)
column_sum(rows, c) ==
    IF rows = <<>> THEN 0
    ELSE (IF Head(rows)[c] = NaN THEN 0 ELSE Head(rows)[c]) + column_sum(Tail(rows), c)
column_count(rows, c) == Len(SelectSeq(rows, LAMBDA r : r[c] # NaN))

\* a net value against a mean is a fraction <<num, den>>; <<NaN, 1>> is missing
isna(n) == n[1] = NaN

\* (df4[tag_col] - df4[base_col]) * 100 if the base column exists,
\* else (df4[tag_col] - df4[tag_col].mean()) * 100
issue_net(rows, r, tag_col) ==
    IF base_col(tag_col) \in columns_of(rows)
      THEN <<net(r[tag_col], r[base_col(tag_col)]), 1>>
    ELSE IF r[tag_col] = NaN \/ column_count(rows, tag_col) = 0
      THEN <<NaN, 1>>
    ELSE <<r[tag_col] * column_count(rows, tag_col) - column_sum(rows, tag_col),
           column_count(rows, tag_col)>>

\* np.select([isna, net > WIN_THRESHOLD, net < LOSE_THRESHOLD], ..., 'Similar Popularity')
issue_status(n) ==
    IF isna(n) THEN "Unknown"
    ELSE IF n[1] > WIN_THRESHOLD * n[2] THEN "Candidate More Popular with this Issue"
    ELSE IF n[1] < LOSE_THRESHOLD * n[2] THEN "Candidate Less Popular with this Issue"
    ELSE "Similar Popularity"

\* np.select([net > WIN_THRESHOLD, net < LOSE_THRESHOLD], ..., 'Similar Popularity to Party')
base_popularity_status(n) ==
    select_status(n, "More Popular than Party", "Less Popular than Party",
                  "Similar Popularity to Party")

\* the derived columns of one composite row
RECURSIVE with_issues(_, _, _)
with_issues(rows, r, cols) ==
    IF cols = {} THEN r
    ELSE LET c == CHOOSE x \in cols : TRUE
             n == issue_net(rows, r, c)
         IN with_issues(rows, r @@ (net_col(c) :> n) @@ (status_col(c) :> issue_status(n)),
                        cols \ {c})

\* lines 163 to 206: the net and status columns
analysis_logic(rows) ==
    [i \in 1..Len(rows) |->
        LET n == net(rows[i].popularity, rows[i].base_popularity) IN
        with_issues(rows,
                    rows[i] @@ [net_base_popularity |-> n,
                                base_popularity_status |-> base_popularity_status(n)],
                    tag_cols(rows))]

\* candidate_analysis_<safe_candidate>_<safe_location>.pkl
filename(a) == <<"candidate_analysis", a.candidate_name, a.location>>

error_result(fn, message, n) ==
    [NoOutcome EXCEPT !.fn = fn, !.kind = "value", !.status = "error", !.message = message,
                      !.suggestions = n]

\* the function is left: its locals are gone
cca_release ==
    /\ cca_pc' = "idle"
    /\ cca_args' = NoCArgs
    /\ opponent_analysis' = <<>>
    /\ base_analysis' = <<>>
    /\ tag_analysis_df' = <<>>
    /\ tag_i' = 1
    /\ df4' = <<>>
    /\ entry' = None
    /\ fetch_log' = fetch_log

wrapper_args(a) ==
    [NoWArgs EXCEPT !.candidate_name = a.candidate_name, !.opponent_name = a.opponent_name,
                    !.candidate_base = a.candidate_base, !.age = a.age, !.gender = a.gender]

\* a table that is never taken for empty
empty_never(rows) == FALSE

\* DataFrame.empty
empty(rows) == rows = <<>>

\* one of the three wrappers is called; log is the calls made before it
cca_call(log, fn, args) ==
    /\ w_invoke(fn, args)
    /\ fetch_log' = Append(log, [fn |-> fn, tag_name |-> args.tag_name])

\* the call: validation, then get_candidate_base
create_candidate_analysis(a) ==
    IF rejects(a)
      THEN /\ outcome' = [NoOutcome EXCEPT !.fn = "create_candidate_analysis", !.kind = "raise"]
           /\ fetch_log' = <<>>
           /\ UNCHANGED <<entry, qloo, cca_pc, cca_args, opponent_analysis, base_analysis,
                          tag_analysis_df, tag_i, df4, artifacts, state, w_vars, hm_vars, frames, fcl_vars>>
      ELSE /\ entry' = "create_candidate_analysis"
           /\ outcome' = NoOutcome
           /\ cca_pc' = "candidate_base"
           /\ cca_args' = a
           /\ cca_call(<<>>, "get_candidate_base", wrapper_args(a))
           /\ UNCHANGED <<qloo, opponent_analysis, base_analysis, tag_analysis_df, tag_i, df4,
                          artifacts, state, hm_vars, frames, fcl_vars>>

\* lines 87 to 107: the join is back; political base next
cca_candidate_base ==
    /\ cca_pc = "candidate_base" /\ w_pc = "returned"
    /\ IF w_ret.kind # "df"
         THEN /\ outcome' = error_result("create_candidate_analysis", "Analysis failed", 4)
              /\ cca_release /\ w_release
       ELSE IF empty(w_ret.rows)
         THEN /\ outcome' = error_result("create_candidate_analysis", "No overlapping data found", 4)
              /\ cca_release /\ w_release
       ELSE /\ opponent_analysis' = w_ret.rows
            /\ cca_pc' = "political_base"
            /\ cca_call(fetch_log, "get_political_base", wrapper_args(cca_args))
            /\ UNCHANGED <<entry, outcome, cca_args, base_analysis, tag_analysis_df, tag_i, df4>>
    /\ UNCHANGED <<qloo, artifacts, state, hm_vars, frames, fcl_vars>>

\* the tags taken from the end of the list
tag_args_reversed(a, i) ==
    [wrapper_args(a) EXCEPT !.tag_name = a.tag_names[Len(a.tag_names) + 1 - i]]

\* the arguments of the i-th get_targeted_base call
tag_args(a, i) == [wrapper_args(a) EXCEPT !.tag_name = a.tag_names[i]]

\* lines 108 to 132: the base grid is back; the first tag next, if any
cca_political_base ==
    /\ cca_pc = "political_base" /\ w_pc = "returned"
    /\ IF w_ret.kind # "df"
         THEN /\ outcome' = error_result("create_candidate_analysis", "Analysis failed", 4)
              /\ cca_release /\ w_release
       ELSE IF empty(w_ret.rows)
         THEN /\ outcome' = error_result("create_candidate_analysis", "No political base data found", 3)
              /\ cca_release /\ w_release
       ELSE /\ base_analysis' = w_ret.rows
            /\ IF cca_args.tag_names # <<>>
                 THEN /\ cca_pc' = "targeted_base"
                      /\ cca_call(fetch_log, "get_targeted_base", tag_args(cca_args, 1))
                 ELSE /\ cca_pc' = "merge"
                      /\ w_release
                      /\ fetch_log' = fetch_log
            /\ UNCHANGED <<entry, outcome, cca_args, opponent_analysis, tag_analysis_df, tag_i, df4>>
    /\ UNCHANGED <<qloo, artifacts, state, hm_vars, frames, fcl_vars>>

\* lines 134 to 137: one tag grid is back; the next tag, or the merge
cca_targeted_base ==
    /\ cca_pc = "targeted_base" /\ w_pc = "returned"
    /\ IF w_ret.kind # "df"
         THEN /\ outcome' = error_result("create_candidate_analysis", "Analysis failed", 4)
              /\ cca_release /\ w_release
       ELSE /\ tag_analysis_df' = tag_analysis_df \o w_ret.rows
            /\ IF tag_i < Len(cca_args.tag_names)
                 THEN /\ tag_i' = tag_i + 1
                      /\ cca_pc' = "targeted_base"
                      /\ cca_call(fetch_log, "get_targeted_base", tag_args(cca_args, tag_i + 1))
                 ELSE /\ tag_i' = tag_i
                      /\ cca_pc' = "merge"
                      /\ w_release
                      /\ fetch_log' = fetch_log
            /\ UNCHANGED <<entry, outcome, cca_args, opponent_analysis, base_analysis, df4>>
    /\ UNCHANGED <<qloo, artifacts, state, hm_vars, frames, fcl_vars>>

\* lines 139 to 208: pivot, the two left merges, the derived columns.
\* Merging with a table that has no latitude column raises KeyError.
cca_merge ==
    /\ cca_pc = "merge"
    /\ LET pivoted == pivot_table(tag_analysis_df)
           df1 == merge_left(opponent_analysis, base_analysis, JOIN_KEY, {"base_popularity"})
           merged == merge_left(df1, pivoted, JOIN_KEY, columns_of(pivoted) \ JOIN_KEY)
       IN
       IF tag_analysis_df = <<>>
         THEN /\ outcome' = error_result("create_candidate_analysis", "Analysis failed", 4)
              /\ cca_release
       ELSE IF merged = <<>>
         THEN /\ outcome' = error_result("create_candidate_analysis", "No merged data available", 3)
              /\ cca_release
       ELSE /\ df4' = analysis_logic(merged)
            /\ cca_pc' = "save"
            /\ UNCHANGED <<entry, outcome, cca_args, opponent_analysis, base_analysis,
                           tag_analysis_df, tag_i, fetch_log>>
    /\ UNCHANGED <<qloo, artifacts, state, hm_vars, w_vars, frames, fcl_vars>>

versions(f) == IF f \in DOMAIN artifacts THEN artifacts[f] ELSE <<>>

\* the dict written under temp:analysis_metadata
analysis_metadata(a, df, version) ==
    << [candidate_name |-> a.candidate_name, candidate_base |-> a.candidate_base,
        location |-> a.location, tag_names |-> a.tag_names, rows |-> Len(df),
        artifact_version |-> version] >>

\* references that leave out the file name
store_references_metadata_only(st, a, df, version) ==
    [st EXCEPT !.analysis_metadata = analysis_metadata(a, df, version)]

\* lines 231 to 243: the file name and the metadata go into the state
store_references(st, a, df, version) ==
    [st EXCEPT !.candidate_analysis_artifact = filename(a),
               !.analysis_metadata = analysis_metadata(a, df, version)]

\* lines 210 to 282: save the artifact, write the state, return success
cca_save_artifact ==
    /\ cca_pc = "save"
    /\ \E saved \in BOOLEAN :
         IF saved
           THEN /\ artifacts' = (filename(cca_args) :> Append(versions(filename(cca_args)), df4))
                                  @@ artifacts
                /\ state' = store_references(state, cca_args, df4,
                                             Len(versions(filename(cca_args))))
                /\ outcome' = [NoOutcome EXCEPT !.fn = "create_candidate_analysis",
                                  !.kind = "value", !.status = "success",
                                  !.message = "Candidate analysis completed", !.rows = df4]
           ELSE /\ outcome' = error_result("create_candidate_analysis", "Analysis failed", 4)
                /\ UNCHANGED <<artifacts, state>>
    /\ cca_release
    /\ UNCHANGED <<qloo, hm_vars, w_vars, frames, fcl_vars>>

\* ===================================================================
\* filter_campaign_locations   (src/resonance_agent/political_agent/tools.py)
\* ===================================================================
\* one entry of filter_criteria: a number for min_affinity and min_popularity,
\* a string or a list of strings for a column
Num(column, n)      == [column |-> column, kind |-> "num",  num |-> n, items |-> <<>>]
Str(column, v)      == [column |-> column, kind |-> "str",  num |-> 0, items |-> <<v>>]
List(column, items) == [column |-> column, kind |-> "list", num |-> 0, items |-> items]

NoFArgs == [filter_criteria |-> <<>>, location_tag |-> None, artifact_filename |-> None]

NoFReturn == [status |-> None, message |-> None, filters_applied |-> <<>>,
              available_columns |-> {}, coordinates |-> <<>>, tag |-> None,
              total_locations |-> 0]

\* series > value, False on NaN
above(v, n) == v # NaN /\ v > n

\* series >= value, False on NaN
at_least(v, n) == v # NaN /\ v >= n

\* a criteria key that names no column empties the table
narrow_unknown_empties(acc, e, columns) ==
    IF e.column \in {"min_affinity", "min_popularity"} \/ e.column \in columns
      THEN acc
      ELSE [rows |-> <<>>, applied |-> acc.applied]

\* a pass that also loses the first row whenever more than one is left
narrow_drops_first(acc, e, columns) ==
    IF Len(acc.rows) > 1 THEN [acc EXCEPT !.rows = Tail(@)] ELSE acc

\* one pass of the loop over filter_criteria.items(); columns are df.columns
narrow(acc, e, columns) ==
    IF e.column \in {"min_affinity", "min_popularity"}
      THEN IF e.column = "min_affinity" /\ "affinity" \in columns
             THEN [rows    |-> SelectSeq(acc.rows, LAMBDA r : at_least(r.affinity, e.num)),
                   applied |-> Append(acc.applied, Num("affinity", e.num))]
           ELSE IF e.column = "min_popularity" /\ "popularity" \in columns
             THEN [rows    |-> SelectSeq(acc.rows, LAMBDA r : at_least(r.popularity, e.num)),
                   applied |-> Append(acc.applied, Num("popularity", e.num))]
           ELSE acc
    ELSE IF e.column \in columns
      THEN [rows    |-> SelectSeq(acc.rows, LAMBDA r : r[e.column] \in Range(e.items)),
            applied |-> Append(acc.applied, List(e.column, e.items))]
    ELSE acc

\* a loop that stops after the first entry
apply_filters_first_only(acc, criteria, columns) ==
    IF criteria = <<>> THEN acc ELSE narrow(acc, Head(criteria), columns)

\* the loop of lines 1098 to 1122 over the criteria in dict order
RECURSIVE apply_filters(_, _, _)
apply_filters(acc, criteria, columns) ==
    IF criteria = <<>> THEN acc
    ELSE apply_filters(narrow(acc, Head(criteria), columns), Tail(criteria), columns)

\* [[float(latitude), float(longitude)] for each row]
coordinates(rows) == [i \in 1..Len(rows) |-> <<rows[i].latitude, rows[i].longitude>>]

\* the first ten kept in place of the last ten
oldest_entries(history) ==
    IF Len(history) > HISTORY_LIMIT THEN SubSeq(history, 1, HISTORY_LIMIT) ELSE history

\* location_history[-10:]
last_entries(history) ==
    IF Len(history) > HISTORY_LIMIT
      THEN SubSeq(history, Len(history) - HISTORY_LIMIT + 1, Len(history))
      ELSE history

\* an empty result reported as an error
no_locations_as_error(applied, df) ==
    [NoFReturn EXCEPT !.status = "error",
                      !.message = "No locations found matching the filter criteria",
                      !.filters_applied = applied]

\* lines 1126 to 1132
no_locations(applied, df) ==
    [NoFReturn EXCEPT !.status = "warning",
                      !.message = "No locations found matching the filter criteria",
                      !.filters_applied = applied,
                      !.available_columns = columns_of(df)]

f_error(message) == [NoFReturn EXCEPT !.status = "error", !.message = message]

\* a save that also forgets what the session knows of its analysis
save_locations_forgets_analysis(st, ret) ==
    [st EXCEPT !.analysis_metadata = <<>>,
               !.identified_locations = << [tag |-> ret.tag, coordinates |-> ret.coordinates,
                                            total_locations |-> ret.total_locations,
                                            filters_applied |-> ret.filters_applied] >>]

\* lines 1140 to 1159: the state after a successful call that returns ret
save_locations(st, ret) ==
    [st EXCEPT !.identified_locations =
                   << [tag |-> ret.tag, coordinates |-> ret.coordinates,
                       total_locations |-> ret.total_locations,
                       filters_applied |-> ret.filters_applied] >>,
               !.location_history =
                   last_entries(Append(@, [tag |-> ret.tag,
                                           total_locations |-> ret.total_locations]))]

\* a save skipped only for errors
saves_unless_error(ret) == ret.status # "error"

\* the returns before line 1134 save nothing: only a success reaches the state
saves(ret) == ret.status = "success"

\* what the function returns for table df, and the rows that are left
filter_result(df, a) ==
    LET done == apply_filters([rows |-> df, applied |-> <<>>], a.filter_criteria,
                              columns_of(df))
    IN IF done.rows = <<>>
         THEN no_locations(done.applied, df)
       ELSE [NoFReturn EXCEPT !.status = "success",
                              !.message = "Successfully identified and saved",
                              !.filters_applied = done.applied,
                              !.coordinates = coordinates(done.rows),
                              !.tag = a.location_tag,
                              !.total_locations = Len(coordinates(done.rows))]

\* ===================================================================
\* the outside caller
\* ===================================================================
Idle == entry = None /\ hm_pc = "idle" /\ w_pc = "idle" /\ cca_pc = "idle" /\ fcl_pc = "idle"

call_get_complete_heatmap_analysis ==
    /\ Idle
    /\ \E en \in SeqsUpTo(EntityNames, MaxEntityNames),
          tn \in SeqsUpTo(TagNames, MaxTagNames),
          d \in Demographics :
         hm_invoke([entity_names |-> en, tag_names |-> tn, audience_ids |-> <<>>,
                    age |-> d.age, gender |-> d.gender])
    /\ entry' = "get_complete_heatmap_analysis"
    /\ outcome' = NoOutcome
    /\ UNCHANGED <<qloo, w_vars, cca_vars, frames, fcl_vars>>

\* the call is over: the caller holds the value, or the exception
return_get_complete_heatmap_analysis ==
    /\ entry = "get_complete_heatmap_analysis"
    /\ hm_pc = "returned"
    /\ outcome' = Plain(entry, hm_ret)
    /\ entry' = None
    /\ hm_release
    /\ UNCHANGED <<qloo, w_vars, cca_vars, frames, fcl_vars>>

\* no call in progress
InitFrames ==
    /\ entry = None
    /\ outcome = NoOutcome
    /\ hm_pc = "idle"
    /\ hm_args = NoArgs
    /\ hm_i = 1
    /\ resolution = EmptyResolution
    /\ errors = <<>>
    /\ calls = <<>>
    /\ hm_ret = NoReturn
    /\ w_pc = "idle"
    /\ w_fn = None
    /\ w_args = NoWArgs
    /\ attempt = 0
    /\ fetched = <<>>
    /\ candidate_df = <<>>
    /\ opponent_df = <<>>
    /\ w_events = <<>>
    /\ w_ret = NoReturn
    /\ cca_pc = "idle"
    /\ cca_args = NoCArgs
    /\ opponent_analysis = <<>>
    /\ base_analysis = <<>>
    /\ tag_analysis_df = <<>>
    /\ tag_i = 1
    /\ df4 = <<>>
    /\ fetch_log = <<>>
    /\ frames = <<>>
    /\ fcl_pc = "idle"
    /\ fcl_args = NoFArgs
    /\ fcl_ret = NoFReturn

\* a fresh session: nothing saved, nothing in tool_context.state
InitCommon ==
    /\ InitFrames
    /\ artifacts = <<>>
    /\ state = EmptyState

\* ---- the grid fetcher called directly
InitHeatmap == InitCommon /\ qloo = "heatmap"

NextHeatmap ==
    \/ call_get_complete_heatmap_analysis
    \/ hm_search_entities
    \/ hm_search_tags
    \/ hm_get_heatmap_analysis
    \/ return_get_complete_heatmap_analysis

SpecHeatmap == InitHeatmap /\ [][NextHeatmap]_vars

\* ---- direct calls of the retry wrappers
call_get_candidate_base ==
    /\ Idle
    /\ \E d \in WrapperDemographics :
         w_invoke("get_candidate_base",
                  [NoWArgs EXCEPT !.candidate_name = "Alice", !.opponent_name = "Bob",
                                  !.age = d.age, !.gender = d.gender])
    /\ entry' = "get_candidate_base"
    /\ outcome' = NoOutcome
    /\ frames' = <<>>
    /\ UNCHANGED <<qloo, hm_vars, cca_vars, fcl_vars>>

call_get_political_base ==
    /\ Idle
    /\ \E d \in WrapperDemographics, cb \in {"Progressive", "conservative", "green"} :
         w_invoke("get_political_base",
                  [NoWArgs EXCEPT !.candidate_base = cb, !.age = d.age, !.gender = d.gender])
    /\ entry' = "get_political_base"
    /\ outcome' = NoOutcome
    /\ frames' = <<>>
    /\ UNCHANGED <<qloo, hm_vars, cca_vars, fcl_vars>>

call_get_targeted_base ==
    /\ Idle
    /\ \E d \in WrapperDemographics, t \in TagNames :
         w_invoke("get_targeted_base",
                  [NoWArgs EXCEPT !.candidate_name = "Alice", !.tag_name = t,
                                  !.age = d.age, !.gender = d.gender])
    /\ entry' = "get_targeted_base"
    /\ outcome' = NoOutcome
    /\ frames' = <<>>
    /\ UNCHANGED <<qloo, hm_vars, cca_vars, fcl_vars>>

\* the tables the dashboard holds: grids the fetcher returned
DashboardFrames ==
    {heatmap_return(r).rows : r \in {x \in GridResults(JoinGrids) :
                                        heatmap_return(x).kind = "df"}}

\* the dashboard joins are pure: one application to a fresh pair of tables
\* covers every pair
call_process_data ==
    /\ Idle /\ outcome = NoOutcome /\ frames = <<>>
    /\ \E a \in DashboardFrames, b \in DashboardFrames :
         /\ frames' = <<a, b>>
         /\ outcome' = Plain("process_data", [kind |-> "df", rows |-> process_data(a, b)])
    /\ UNCHANGED <<entry, qloo, hm_vars, w_vars, cca_vars, fcl_vars>>

call_process_entity_data ==
    /\ Idle /\ outcome = NoOutcome /\ frames = <<>>
    /\ \E a \in DashboardFrames, b \in DashboardFrames :
         /\ frames' = <<a, b>>
         /\ outcome' = Plain("process_entity_data",
                             [kind |-> "df", rows |-> process_entity_data(a, b)])
    /\ UNCHANGED <<entry, qloo, hm_vars, w_vars, cca_vars, fcl_vars>>

return_wrapper ==
    /\ entry \in Wrappers
    /\ w_pc = "returned"
    /\ outcome' = Plain(entry, w_ret)
    /\ entry' = None
    /\ w_release
    /\ UNCHANGED <<qloo, hm_vars, cca_vars, frames, fcl_vars>>

InitWrappers == InitCommon /\ qloo = "join"

NextWrappers ==
    \/ call_get_candidate_base
    \/ call_get_political_base
    \/ call_get_targeted_base
    \/ w_attempt
    \/ hm_search_entities
    \/ hm_search_tags
    \/ hm_get_heatmap_analysis
    \/ get_candidate_base_candidate
    \/ get_candidate_base_opponent
    \/ get_political_base_body
    \/ get_targeted_base_body
    \/ w_sleep
    \/ return_wrapper
    \/ call_process_data
    \/ call_process_entity_data

SpecWrappers == InitWrappers /\ [][NextWrappers]_vars

\* ---- the analysis builder
AnalysisInputs ==
    {[candidate_name |-> c, opponent_name |-> "Bob", candidate_base |-> "progressive",
      location |-> l, age |-> d.age, gender |-> d.gender, tag_names |-> t] :
        c \in {"Alice", ""}, l \in {"Phoenix", ""}, d \in AnalysisDemographics,
        t \in SeqsUpTo(TagNames, MaxTags)}

\* two candidates against the same opponent, in a session of several analyses
SessionInputs ==
    {[candidate_name |-> c, opponent_name |-> "Bob", candidate_base |-> "progressive",
      location |-> "Phoenix", age |-> None, gender |-> None, tag_names |-> <<"economy">>] :
        c \in {"Alice", "Carol"}}

\* the arguments a caller of this session passes
CallerInputs(world) == IF world = "session" THEN SessionInputs ELSE AnalysisInputs

RECURSIVE SavedCount(_)
\* how many versions the artifact service holds under the file names in F
SavedCount(F) ==
    IF F = {} THEN 0
    ELSE LET f == CHOOSE x \in F : TRUE IN Len(artifacts[f]) + SavedCount(F \ {f})

\* one analysis is followed up to its first saved table, a session up to
\* MaxAnalyses saved tables
MoreAnalyses(world) ==
    IF world = "session" THEN SavedCount(DOMAIN artifacts) < MaxAnalyses
    ELSE state.candidate_analysis_artifact = None

\* tag_names=None is replaced by the empty list before anything else
call_create_candidate_analysis ==
    /\ Idle
    /\ MoreAnalyses(qloo)
    /\ \E a \in CallerInputs(qloo) : create_candidate_analysis(a)

Init == InitCommon /\ qloo = "analysis"

Next ==
    \/ call_create_candidate_analysis
    \/ w_attempt
    \/ hm_search_entities
    \/ hm_search_tags
    \/ hm_get_heatmap_analysis
    \/ get_candidate_base_candidate
    \/ get_candidate_base_opponent
    \/ get_political_base_body
    \/ get_targeted_base_body
    \/ w_sleep
    \/ cca_candidate_base
    \/ cca_political_base
    \/ cca_targeted_base
    \/ cca_merge
    \/ cca_save_artifact

Spec == Init /\ [][Next]_vars

\* ---- location filtering, in a session that may hold a saved analysis
\* df4 as create_candidate_analysis builds it from the four grids
composite(candidate, opponent, base, issue) ==
    LET table(g) == [i \in 1..Len(g) |-> annotate(g[i])]
        opp   == select(rename(table(opponent), "popularity", "opponent_popularity"),
                        {"latitude", "longitude", "opponent_popularity"})
        party == select(rename(table(base), "popularity", "base_popularity"),
                        {"latitude", "longitude", "base_popularity"})
        tags  == pivot_table([i \in 1..Len(issue) |->
                                [latitude |-> issue[i].latitude,
                                 longitude |-> issue[i].longitude,
                                 tag_name |-> tag_column("economy"),
                                 tag_popularity |-> issue[i].popularity]])
        df1   == merge_left(popularity_status(merge_inner(table(candidate), opp, JOIN_KEY)),
                            party, JOIN_KEY, {"base_popularity"})
    IN analysis_logic(merge_left(df1, tags, JOIN_KEY, columns_of(tags) \ JOIN_KEY))

SavedTables ==
    {composite(g, FilterOthers, FilterOthers, FilterIssue) :
        g \in FilterGrids}

\* the analysis that saved it
SavedArgs == [candidate_name |-> "Alice", candidate_base |-> "progressive",
              location |-> "Phoenix", tag_names |-> <<"economy">>]
SavedFile == filename(SavedArgs)
\* a file name nothing was saved under
OtherFile == filename([candidate_name |-> "Carol", location |-> "Phoenix"])

FilterEntries ==
    {Num("min_affinity", 60), Num("min_popularity", 60),
     Str("strategy", "Rally the Base"),
     List("strategy", <<"Rally the Base", "Hidden Goldmine">>),
     Str("turnout", "high")}

\* a dict: no key twice
FilterCriteria ==
    {c \in SeqsUpTo(FilterEntries, MaxCriteria) :
        \A i, j \in 1..Len(c) : c[i].column = c[j].column => i = j}

LocationTags == {"rally", "swing"}

\* criteria of a long session: two that keep two rows each, one that keeps none
HistoryCriteria ==
    {<<Num("min_affinity", 60)>>, <<List("strategy", <<"Rally the Base", "Bring Them Over">>)>>,
     <<Num("min_affinity", 60), Str("strategy", "Deep Conversion")>>}

\* the criteria a caller of this session passes
CallerCriteria(world) == IF world = "filter" THEN FilterCriteria ELSE HistoryCriteria

\* a long session is cut off by the history itself, which keeps ten entries
MoreCalls(world, history) == world = "history" \/ Len(history) < MaxFilterCalls

\* the whole call, up to the return statement
filter_campaign_locations ==
    /\ Idle
    /\ MoreCalls(qloo, state.location_history)
    /\ \E c \in CallerCriteria(qloo), t \in LocationTags, f \in {None, OtherFile},
          loaded \in BOOLEAN :
         LET a    == [filter_criteria |-> c, location_tag |-> t, artifact_filename |-> f]
             name == IF f = None THEN state.candidate_analysis_artifact ELSE f
             ret  == IF f = None /\ state.candidate_analysis_artifact = None
                       THEN f_error("No candidate analysis found")
                     ELSE IF ~loaded
                       THEN f_error("Failed to filter locations")
                     ELSE IF versions(name) = <<>>
                       THEN f_error("Could not load analysis data")
                     ELSE filter_result(versions(name)[Len(versions(name))], a)
         IN /\ fcl_args' = a
            /\ fcl_ret' = ret
            /\ state' = IF saves(ret) THEN save_locations(state, ret) ELSE state
    /\ fcl_pc' = "returned"
    /\ entry' = "filter_campaign_locations"
    /\ outcome' = NoOutcome
    /\ UNCHANGED <<qloo, hm_vars, w_vars, frames, cca_pc, cca_args, opponent_analysis,
                   base_analysis, tag_analysis_df, tag_i, df4, artifacts, fetch_log>>

\* the caller holds the dict
return_filter_campaign_locations ==
    /\ entry = "filter_campaign_locations"
    /\ fcl_pc = "returned"
    /\ outcome' = [NoOutcome EXCEPT !.fn = entry, !.kind = "value",
                                    !.status = fcl_ret.status, !.message = fcl_ret.message]
    /\ entry' = None
    /\ fcl_pc' = "idle"
    /\ fcl_args' = NoFArgs
    /\ fcl_ret' = NoFReturn
    /\ UNCHANGED <<qloo, hm_vars, w_vars, cca_vars, frames>>

\* a session with no analysis yet, or with one saved composite table
InitFilter ==
    /\ InitFrames
    /\ qloo = "filter"
    /\ \/ artifacts = <<>> /\ state = EmptyState
       \/ \E df \in SavedTables :
             /\ artifacts = (SavedFile :> <<df>>)
             /\ state = [EmptyState EXCEPT !.candidate_analysis_artifact = SavedFile,
                                           !.analysis_metadata = analysis_metadata(SavedArgs, df, 0)]

\* the whole of get_identified_locations: the caller holds the dict
get_identified_locations ==
    /\ Idle
    /\ outcome' = IF state.identified_locations = <<>>
                    THEN [NoOutcome EXCEPT !.fn = "get_identified_locations", !.kind = "value",
                                           !.status = "error",
                                           !.message = "No identified locations found"]
                    ELSE [NoOutcome EXCEPT !.fn = "get_identified_locations", !.kind = "value",
                                           !.status = "success",
                                           !.message = "Retrieved identified locations",
                                           !.locations = state.identified_locations,
                                           !.current = state.identified_locations[1].tag]
    /\ UNCHANGED <<entry, qloo, hm_vars, w_vars, cca_vars, frames, fcl_vars>>

\* the whole of list_location_history: the caller holds the dict
list_location_history ==
    /\ Idle
    /\ outcome' = IF state.location_history = <<>>
                    THEN [NoOutcome EXCEPT !.fn = "list_location_history", !.kind = "value",
                                           !.status = "info",
                                           !.message = "No location history found"]
                    ELSE [NoOutcome EXCEPT !.fn = "list_location_history", !.kind = "value",
                                           !.status = "success",
                                           !.message = "Found recent location groups",
                                           !.history = state.location_history,
                                           !.current = IF state.identified_locations = <<>>
                                                         THEN None
                                                         ELSE state.identified_locations[1].tag]
    /\ UNCHANGED <<entry, qloo, hm_vars, w_vars, cca_vars, frames, fcl_vars>>

NextFilter ==
    \/ filter_campaign_locations
    \/ return_filter_campaign_locations
    \/ get_identified_locations
    \/ list_location_history

SpecFilter == InitFilter /\ [][NextFilter]_vars

\* ---- a session of analyses, campaign inputs and filters
\* restore_candidate_info_from_artifacts: the file it looks at; the name is
\* read back from the file name, candidate_analysis_<candidate>_<location>.pkl
restore_file ==
    IF state.candidate_analysis_artifact # None THEN <<state.candidate_analysis_artifact>>
    ELSE IF DOMAIN artifacts # {} THEN <<CHOOSE f \in DOMAIN artifacts : TRUE>>
    ELSE <<>>

\* the whole of collect_campaign_inputs
collect_campaign_inputs ==
    /\ Idle
    /\ \E complete \in BOOLEAN, given \in {None, "Dana"}, loaded \in BOOLEAN :
         LET metadata == state.analysis_metadata
             known    == IF metadata = <<>> THEN None ELSE metadata[1].candidate_name
             base     == IF metadata = <<>> THEN None ELSE metadata[1].candidate_base
             restored == known = None /\ given = None /\ restore_file # <<>> /\ loaded
             name     == IF known # None THEN known
                         ELSE IF given # None THEN given
                         ELSE IF restored THEN restore_file[1][2] ELSE None
             cbase    == IF base # None THEN base
                         ELSE IF given # None THEN "conservative"
                         ELSE IF restored THEN "progressive" ELSE None
             fn       == "collect_campaign_inputs"
         IN IF ~complete
              THEN /\ outcome' = [NoOutcome EXCEPT !.fn = fn, !.kind = "value",
                                      !.status = "error", !.message = "Missing required fields"]
                   /\ state' = state
            ELSE IF name = None
              THEN /\ outcome' = [NoOutcome EXCEPT !.fn = fn, !.kind = "value",
                                      !.status = "error",
                                      !.message = "No candidate information found"]
                   /\ state' = state
            ELSE /\ outcome' = [NoOutcome EXCEPT !.fn = fn, !.kind = "value",
                                    !.status = "success",
                                    !.message = "Campaign inputs collected"]
                 /\ state' = [state EXCEPT
                        !.campaign_inputs = << [candidate_name |-> name, candidate_base |-> cbase] >>,
                        !.candidate_name = name,
                        !.candidate_base = cbase,
                        !.analysis_metadata =
                            IF known = None
                              THEN << [candidate_name |-> name, candidate_base |-> cbase,
                                       location |-> "Unknown", tag_names |-> <<>>,
                                       rows |-> 0, artifact_version |-> 0] >>
                              ELSE @]
    /\ UNCHANGED <<entry, qloo, hm_vars, w_vars, frames, fcl_vars, cca_pc, cca_args,
                   opponent_analysis, base_analysis, tag_analysis_df, tag_i, df4, artifacts,
                   fetch_log>>

\* a fresh session, or one whose state was lost while its artifact was kept
InitSession ==
    /\ InitFrames
    /\ qloo = "session"
    /\ state = EmptyState
    /\ \/ artifacts = <<>>
       \/ artifacts = (SavedFile :> <<composite(<<A10>>, <<A10>>, <<A10>>, <<A10>>)>>)

NextSession ==
    \/ call_create_candidate_analysis
    \/ w_attempt
    \/ hm_search_entities
    \/ hm_search_tags
    \/ hm_get_heatmap_analysis
    \/ get_candidate_base_candidate
    \/ get_candidate_base_opponent
    \/ get_political_base_body
    \/ get_targeted_base_body
    \/ w_sleep
    \/ cca_candidate_base
    \/ cca_political_base
    \/ cca_targeted_base
    \/ cca_merge
    \/ cca_save_artifact
    \/ collect_campaign_inputs
    \/ filter_campaign_locations
    \/ return_filter_campaign_locations

SpecSession == InitSession /\ [][NextSession]_vars

\* ---- a long session over one saved table
InitHistory ==
    /\ InitFrames
    /\ qloo = "history"
    /\ artifacts = (SavedFile :> <<composite(HistoryGrid, FilterOthers, FilterOthers, FilterIssue)>>)
    /\ state = [EmptyState EXCEPT !.candidate_analysis_artifact = SavedFile,
                                  !.analysis_metadata = analysis_metadata(SavedArgs, HistoryGrid, 0)]

SpecHistory == InitHistory /\ [][NextFilter]_vars

\* ---- the retry wrappers over the analysis data, run to completion:
\* the code is sequential, a step that can be taken is taken
NextRetry ==
    \/ call_get_candidate_base
    \/ call_get_political_base
    \/ call_get_targeted_base
    \/ w_attempt
    \/ hm_search_entities
    \/ hm_search_tags
    \/ hm_get_heatmap_analysis
    \/ get_candidate_base_candidate
    \/ get_candidate_base_opponent
    \/ get_political_base_body
    \/ get_targeted_base_body
    \/ w_sleep
    \/ return_wrapper

SpecRetryFair == Init /\ [][NextRetry]_vars /\ WF_vars(NextRetry)

\* ===================================================================
\* properties
\* ===================================================================
Min(a, b) == IF a <= b THEN a ELSE b
IsPrefix(s, t) == Len(s) <= Len(t) /\ \A i \in 1..Len(s) : s[i] = t[i]
Count(s, x) == Cardinality({i \in 1..Len(s) : s[i] = x})
GridCalls == {i \in 1..Len(calls) : calls[i].op = "get_heatmap_analysis"}

\* C1: when the analysis reaches the merge with no issue data at all (no tags
\* asked for, or every tag fetch empty) while the candidate/opponent join and
\* the base grid are non-empty, it does not fail: it goes on to a composite
\* table that has no issue columns.
C1_NoIssueDataStillSucceeds ==
    [][(cca_pc = "merge" /\ tag_analysis_df = <<>> /\ opponent_analysis # <<>>
          /\ base_analysis # <<>>)
        => (cca_pc' = "save" /\ df4' # <<>> /\ tag_cols(df4') = {})]_vars

\* C2: in every row of the composite table and on every comparison axis
\* (political base, each issue), a missing net value has the status 'Unknown'.
C2_MissingIsUnknown ==
    \A i \in 1..Len(df4) :
        /\ df4[i].net_base_popularity = NaN => df4[i].base_popularity_status = "Unknown"
        /\ \A c \in tag_cols(df4) :
              isna(df4[i][net_col(c)]) => df4[i][status_col(c)] = "Unknown"

\* C3: the grid fetcher never raises and always returns a table; when the grid
\* call threw, answered success=false or answered with zero points, the table
\* is the empty one.
C3_AlwaysAGrid ==
    (hm_pc = "returned") =>
        /\ hm_ret.kind = "df"
        /\ \A i \in GridCalls :
              calls[i].answer \in {"throw", "fail", "empty"} => hm_ret.rows = <<>>

\* C4: no public entry point lets an exception reach its caller.
C4_NoExceptionEscapes == outcome.kind # "raise"

\* C5: when entity names were given and none resolved, every name is recorded
\* with success=false and the function ends without a call of the grid endpoint.
C5_UnresolvedEntitiesShortCircuit ==
    (hm_pc = "returned" /\ hm_args.entity_names # <<>> /\ resolution.entity_ids = <<>>) =>
        /\ \A n \in Range(hm_args.entity_names) :
              n \in DOMAIN resolution.entities /\ ~resolution.entities[n].success
        /\ GridCalls = {}

\* C6: a wrapper makes at most two attempts, the second only after the first
\* raised, with the one sleep strictly between them; no third attempt and no
\* sleep after the second.
C6_AtMostTwoAttempts ==
    /\ IsPrefix(w_events, <<"attempt", "raise", "sleep", "attempt", "raise">>)
    /\ Count(w_events, "attempt") <= attempt + 1
    /\ Count(w_events, "sleep") = attempt

C6_Witness ==
    /\ w_pc = "returned"
    /\ w_events = <<"attempt", "raise", "sleep", "attempt", "raise">>

JoinDone ==
    \/ (w_fn = "get_candidate_base" /\ w_pc = "returned" /\ Len(fetched) = 2)
    \/ outcome.fn \in {"process_data", "process_entity_data"}
JoinLeft   == IF w_fn = "get_candidate_base" THEN candidate_df ELSE frames[1]
JoinRight  == IF w_fn = "get_candidate_base" THEN opponent_df ELSE frames[2]
JoinResult == IF w_fn = "get_candidate_base" THEN w_ret.rows ELSE outcome.rows
KeysUnique(g) == \A i, j \in 1..Len(g) : key_of(g[i]) = key_of(g[j]) => i = j
MatchingPairs(A, B) ==
    Cardinality({p \in (1..Len(A)) \X (1..Len(B)) : key_of(A[p[1]]) = key_of(B[p[2]])})

usable_keys(g) ==
    {key_of(g[i]) : i \in {j \in 1..Len(g) :
        g[j].popularity # NaN /\ g[j].latitude # NaN /\ g[j].longitude # NaN}}

\* C9: the rows get_candidate_base returns are at exactly the locations found,
\* with equal coordinates, in both the candidate's and the opponent's grid
\* (with a popularity), no more and no fewer.
C9_ExactlyTheSharedLocations ==
    (w_fn = "get_candidate_base" /\ w_pc = "returned" /\ Len(fetched) = 2) =>
        {key_of(w_ret.rows[i]) : i \in 1..Len(w_ret.rows)}
          = usable_keys(fetched[1]) \cap usable_keys(fetched[2])

C9_Witness ==
    /\ w_fn = "get_candidate_base" /\ w_pc = "returned" /\ Len(fetched) = 2
    /\ w_ret.rows # <<>>
    /\ usable_keys(fetched[1]) \ usable_keys(fetched[2]) # {}

\* C10: on every axis of the composite table a net value above 2 gives the
\* leading label, one below -2 the trailing label, and any other value that
\* is not missing, 2 and -2 included, the similar label.
C10_StrictThresholds ==
    \A i \in 1..Len(df4) :
        LET r == df4[i] IN
        /\ r.net_popularity # NaN =>
              r.popularity_status =
                 (IF r.net_popularity > 2 THEN "Leading Opponent"
                  ELSE IF r.net_popularity < 0 - 2 THEN "Trailing Opponent"
                  ELSE "Similar to Opponent")
        /\ r.net_base_popularity # NaN =>
              r.base_popularity_status =
                 (IF r.net_base_popularity > 2 THEN "More Popular than Party"
                  ELSE IF r.net_base_popularity < 0 - 2 THEN "Less Popular than Party"
                  ELSE "Similar Popularity to Party")
        /\ \A c \in tag_cols(df4) :
              ~isna(r[net_col(c)]) =>
                 r[status_col(c)] =
                    (IF r[net_col(c)][1] > 2 * r[net_col(c)][2]
                       THEN "Candidate More Popular with this Issue"
                     ELSE IF r[net_col(c)][1] < (0 - 2) * r[net_col(c)][2]
                       THEN "Candidate Less Popular with this Issue"
                     ELSE "Similar Popularity")

\* a row exactly on the threshold on all three axes
C10_Witness ==
    \E i \in 1..Len(df4) :
        /\ df4[i].net_popularity = 2 /\ df4[i].popularity_status = "Similar to Opponent"
        /\ df4[i].net_base_popularity = 2
        /\ df4[i].base_popularity_status = "Similar Popularity to Party"
        /\ "tag_economy" \in tag_cols(df4)
        /\ df4[i].net_economy_popularity = <<0 - 4, 2>>
        /\ df4[i].issue_economy_popularity_status = "Similar Popularity"

\* C11: in the composite table, wherever the political-base popularity and the
\* issue popularity of a row are both known, the issue's net value is the
\* issue popularity minus the base popularity, in points.
C11_IssueNetAgainstBase ==
    \A i \in 1..Len(df4) : \A c \in tag_cols(df4) :
        (df4[i].base_popularity # NaN /\ df4[i][c] # NaN) =>
            df4[i][net_col(c)][1]
              = (df4[i][c] - df4[i].base_popularity) * df4[i][net_col(c)][2]

\* the locations of a table
keys_of(rows) == {key_of(rows[i]) : i \in 1..Len(rows)}

C13_NoMissingValueJoins ==
    (w_fn = "get_candidate_base" /\ w_pc = "returned" /\ Len(fetched) = 2
        /\ opponent_df # <<>>) =>
        \A i \in 1..Len(candidate_df) :
            candidate_df[i].affinity # NaN /\ candidate_df[i].popularity # NaN

\* a logged wrapper call
Fetch(fn, tag_name) == [fn |-> fn, tag_name |-> tag_name]

\* C14: once the analysis has called anything after get_candidate_base, the
\* join it holds is not empty; and when get_candidate_base comes back empty
\* the analysis ends there with an error result that has a message and
\* suggestions, having called no other wrapper.
C14_NoOverlapIsTerminal ==
    /\ [](cca_pc \in {"political_base", "targeted_base", "merge", "save"}
            => opponent_analysis # <<>>)
    /\ [][(cca_pc = "candidate_base" /\ w_pc = "returned" /\ w_ret.rows = <<>>) =>
            /\ outcome'.fn = "create_candidate_analysis"
            /\ outcome'.kind = "value" /\ outcome'.status = "error"
            /\ outcome'.message # None /\ outcome'.suggestions > 0
            /\ cca_pc' = "idle" /\ w_pc' = "idle" /\ hm_pc' = "idle"
            /\ fetch_log' = <<Fetch("get_candidate_base", None)>>]_vars

C14_Witness ==
    /\ outcome.fn = "create_candidate_analysis"
    /\ outcome.message = "No overlapping data found"
    /\ fetch_log = <<Fetch("get_candidate_base", None)>>
    /\ cca_pc = "idle"

\* the wrapper calls an analysis with arguments a makes when nothing stops it
ExpectedFetches(a) ==
    <<Fetch("get_candidate_base", None), Fetch("get_political_base", None)>>
    \o [i \in 1..Len(a.tag_names) |-> Fetch("get_targeted_base", a.tag_names[i])]

\* C15: the analysis calls for the candidate, the opponent, the political
\* base and then the issues in the caller's order, one call at a time; an
\* empty base grid ends it with an error result, with no issue fetched and no
\* artifact saved.
C15_FetchOrder ==
    /\ [](cca_pc # "idle" =>
            /\ IsPrefix(fetch_log, ExpectedFetches(cca_args))
            /\ w_pc # "idle" =>
                  /\ fetch_log # <<>>
                  /\ w_fn = fetch_log[Len(fetch_log)].fn
                  /\ w_args.tag_name = fetch_log[Len(fetch_log)].tag_name
            /\ (w_fn = "get_candidate_base" /\ w_pc = "fetch") =>
                  hm_args.entity_names = <<cca_args.candidate_name>>
            /\ (w_fn = "get_candidate_base" /\ w_pc = "fetch_opponent") =>
                  /\ hm_args.entity_names = <<cca_args.opponent_name>>
                  /\ Len(fetched) = 1)
    /\ [][(cca_pc = "political_base" /\ w_pc = "returned" /\ w_ret.rows = <<>>) =>
            /\ outcome'.kind = "value" /\ outcome'.status = "error"
            /\ outcome'.suggestions > 0
            /\ cca_pc' = "idle" /\ w_pc' = "idle" /\ hm_pc' = "idle"
            /\ artifacts' = artifacts
            /\ fetch_log' = <<Fetch("get_candidate_base", None),
                              Fetch("get_political_base", None)>>]_vars

\* two issues, fetched in the order given
C15_Witness ==
    /\ cca_pc = "save"
    /\ cca_args.tag_names = <<"health care", "economy">>
    /\ fetch_log = ExpectedFetches(cca_args)

\* C16: an age or gender outside the recognised values never gets as far as a
\* network call of the grid fetcher.
C16_InvalidDemographicsRejected ==
    (hm_args.age \notin valid_ages \cup {None}
        \/ hm_args.gender \notin valid_genders \cup {None}) => calls = <<>>

\* ---- filter_campaign_locations
\* the call loaded a table and filtered it
Filtered ==
    /\ fcl_pc = "returned"
    /\ fcl_ret.message \in {"Successfully identified and saved",
                            "No locations found matching the filter criteria"}
\* the table it loaded
FilterTable == versions(SavedFile)[Len(versions(SavedFile))]

\* the same entries in another order
Orderings(c) == {p \in FilterCriteria : Len(p) = Len(c) /\ Range(p) = Range(c)}

\* C17: whatever the order of the criteria entries, the call gives the same
\* status and the same coordinates, and applies the same filters.
C17_OrderOfCriteriaIrrelevant ==
    Filtered =>
        \A p \in Orderings(fcl_args.filter_criteria) :
            LET other == filter_result(FilterTable, [fcl_args EXCEPT !.filter_criteria = p])
            IN /\ other.status = fcl_ret.status
               /\ other.coordinates = fcl_ret.coordinates
               /\ Range(other.filters_applied) = Range(fcl_ret.filters_applied)

\* two entries of which only the second removes a row
C17_Witness ==
    /\ Filtered /\ fcl_ret.status = "success"
    /\ fcl_args.filter_criteria = <<Num("min_affinity", 60), Num("min_popularity", 60)>>
    /\ Len(FilterTable) = 2 /\ fcl_ret.total_locations = 1

\* row r meets criteria entry e
Meets(r, e) ==
    CASE e.column = "min_affinity"   -> r.affinity # NaN /\ r.affinity >= e.num
      [] e.column = "min_popularity" -> r.popularity # NaN /\ r.popularity >= e.num
      [] OTHER -> e.column \in DOMAIN r => r[e.column] \in Range(e.items)
Survivors(df, c) == SelectSeq(df, LAMBDA r : \A i \in 1..Len(c) : Meets(r, c[i]))

\* C18: a successful call emits the coordinates of exactly the rows of the
\* loaded table that meet every criterion, one pair per row in table order,
\* and stores them with the caller's tag and their number.
C18_ExactlyTheSurvivingRows ==
    Filtered =>
        LET rows == Survivors(FilterTable, fcl_args.filter_criteria) IN
        IF rows = <<>> THEN fcl_ret.status # "success" ELSE
        /\ fcl_ret.status = "success"
        /\ fcl_ret.coordinates = [i \in 1..Len(rows) |-> <<rows[i].latitude, rows[i].longitude>>]
        /\ fcl_ret.total_locations = Len(rows)
        /\ state.identified_locations # <<>>
        /\ state.identified_locations[1].tag = fcl_args.location_tag
        /\ state.identified_locations[1].coordinates = fcl_ret.coordinates
        /\ state.identified_locations[1].total_locations = Len(rows)

C18_Witness ==
    /\ Filtered /\ fcl_ret.status = "success"
    /\ fcl_args.filter_criteria =
          <<List("strategy", <<"Rally the Base", "Hidden Goldmine">>), Num("min_popularity", 60)>>
    /\ Len(FilterTable) = 2 /\ fcl_ret.total_locations = 1
    /\ state.identified_locations[1].tag = "swing"

\* the filters a call applies: one per entry that names a threshold or a column
Applied(df, c) ==
    LET known == SelectSeq(c, LAMBDA e : e.column \in {"min_affinity", "min_popularity"}
                                          \/ e.column \in columns_of(df))
    IN [i \in 1..Len(known) |->
          IF known[i].column = "min_affinity" THEN Num("affinity", known[i].num)
          ELSE IF known[i].column = "min_popularity" THEN Num("popularity", known[i].num)
          ELSE List(known[i].column, known[i].items)]

\* C19: criteria that no row of the loaded table meets give a warning, with
\* the filters applied and every column of the unfiltered table.
C19_EmptyResultIsAWarning ==
    (Filtered /\ Survivors(FilterTable, fcl_args.filter_criteria) = <<>>) =>
        /\ fcl_ret.status = "warning"
        /\ fcl_ret.filters_applied = Applied(FilterTable, fcl_args.filter_criteria)
        /\ fcl_ret.available_columns = DOMAIN FilterTable[1]
        /\ "strategy" \in fcl_ret.available_columns

\* strategy and min_affinity on a one-row table whose affinity is too low
C19_Witness ==
    /\ Filtered /\ fcl_ret.status = "warning"
    /\ fcl_args.filter_criteria = <<Str("strategy", "Rally the Base"), Num("min_affinity", 60)>>
    /\ Len(FilterTable) = 1 /\ FilterTable[1].affinity = 59
    /\ Len(fcl_ret.filters_applied) = 2

\* C20: a criteria key that is no threshold and no column changes nothing:
\* the call returns what it returns without that entry, and lists no filter
\* for it.
C20_UnknownColumnSkipped ==
    Filtered =>
        LET known == SelectSeq(fcl_args.filter_criteria,
                               LAMBDA e : e.column \in {"min_affinity", "min_popularity"}
                                          \/ e.column \in DOMAIN FilterTable[1])
        IN /\ fcl_ret = filter_result(FilterTable, [fcl_args EXCEPT !.filter_criteria = known])
           /\ fcl_ret.status # "error"
           /\ \A i \in 1..Len(fcl_ret.filters_applied) :
                 fcl_ret.filters_applied[i].column # "turnout"

C20_Witness ==
    /\ Filtered /\ fcl_ret.status = "success"
    /\ fcl_args.filter_criteria = <<Str("turnout", "high"), Num("min_popularity", 60)>>
    /\ Len(FilterTable) = 2 /\ fcl_ret.total_locations = 1
    /\ Len(fcl_ret.filters_applied) = 1

\* the step in which filter_campaign_locations runs
FilterCall == fcl_pc = "idle" /\ fcl_pc' = "returned"

\* the rows of the loaded table whose coordinates the call gave
KeptRows ==
    SelectSeq(FilterTable, LAMBDA r : <<r.latitude, r.longitude>> \in Range(fcl_ret.coordinates))

\* C21: filtering is idempotent.  The criteria of a successful call, applied
\* to the table of the rows that call kept, give the same coordinates again;
\* and a successful call that applies the same filters as the call whose
\* result is stored, to the same saved table, gives the stored coordinates.
C21_FilteringIsIdempotent ==
    /\ [](Filtered /\ fcl_ret.status = "success" =>
            filter_result(KeptRows, fcl_args).coordinates = fcl_ret.coordinates)
    /\ [][FilterCall /\ fcl_ret'.status = "success" /\ state.identified_locations # <<>>
            /\ state.identified_locations[1].filters_applied = fcl_ret'.filters_applied
          => fcl_ret'.coordinates = state.identified_locations[1].coordinates]_vars

\* a second successful call in a session: two of the four rows are kept again
C21_Witness ==
    /\ Filtered /\ fcl_ret.status = "success"
    /\ fcl_args.filter_criteria = <<Num("min_affinity", 60)>>
    /\ Len(FilterTable) = 4 /\ fcl_ret.total_locations = 2
    /\ Len(state.location_history) = 2
    /\ state.location_history[1].total_locations = 2

\* C22: a call of filter_campaign_locations, however it ends, leaves the saved
\* artifacts, temp:candidate_analysis_artifact and temp:analysis_metadata as
\* they were; of the state it writes identified_locations and location_history
\* only.
C22_FilterOnlyReadsTheAnalysis ==
    [][FilterCall =>
         /\ artifacts' = artifacts
         /\ state'.candidate_analysis_artifact = state.candidate_analysis_artifact
         /\ state'.analysis_metadata = state.analysis_metadata
         /\ DOMAIN state' = DOMAIN state]_vars

\* a successful call in a session that holds an analysis
C22_Witness ==
    /\ Filtered /\ fcl_ret.status = "success"
    /\ state.identified_locations # <<>> /\ state.location_history # <<>>
    /\ state.candidate_analysis_artifact = SavedFile
    /\ state.analysis_metadata # <<>>
    /\ versions(SavedFile) # <<>>

\* ---- quadrants
\* the four segments with their strategies, by (high affinity, high popularity)
Quadrants ==
    { [ha |-> TRUE,  hp |-> TRUE,  segment |-> "HA-HP", strategy |-> "Rally the Base"],
      [ha |-> TRUE,  hp |-> FALSE, segment |-> "HA-LP", strategy |-> "Hidden Goldmine"],
      [ha |-> FALSE, hp |-> TRUE,  segment |-> "LA-HP", strategy |-> "Bring Them Over"],
      [ha |-> FALSE, hp |-> FALSE, segment |-> "LA-LP", strategy |-> "Deep Conversion"] }

\* C23: in the table get_complete_heatmap_analysis returns, every row whose
\* affinity and popularity are numbers has the segment and the strategy of
\* exactly one quadrant, that of (affinity >= 0.6, popularity >= 0.6).
C23_QuadrantsAreTotal ==
    hm_ret.kind = "df" =>
        \A i \in 1..Len(hm_ret.rows) :
            LET r == hm_ret.rows[i] IN
            r.affinity # NaN /\ r.popularity # NaN =>
                /\ Cardinality({q \in Quadrants : q.segment = r.segment}) = 1
                /\ \E q \in Quadrants :
                      /\ q.ha = (r.affinity >= 60) /\ q.hp = (r.popularity >= 60)
                      /\ r.segment = q.segment /\ r.strategy = q.strategy

\* the point the text names: 0.6 and 0.6
C23_Witness ==
    /\ hm_ret.kind = "df"
    /\ \E i \in 1..Len(hm_ret.rows) :
          /\ hm_ret.rows[i].affinity = 60 /\ hm_ret.rows[i].popularity = 60
          /\ hm_ret.rows[i].segment = "HA-HP" /\ hm_ret.rows[i].strategy = "Rally the Base"

\* ---- net popularity
\* what get_candidate_base makes of the candidate's and the opponent's grid
candidate_base_of(candidate, opponent) ==
    LET c == dropna(candidate, {"popularity", "latitude", "longitude"})
        o == dropna(select(rename(opponent, "popularity", "opponent_popularity"),
                           {"latitude", "longitude", "opponent_popularity"}),
                    {"latitude", "longitude", "opponent_popularity"})
    IN popularity_status(merge_inner(c, o, JOIN_KEY))

negated(n) == IF n = NaN THEN NaN ELSE 0 - n

swapped(status) ==
    CASE status = "Leading Opponent"  -> "Trailing Opponent"
      [] status = "Trailing Opponent" -> "Leading Opponent"
      [] OTHER                        -> status

\* location, net value and label of every row
NetRows(rows) ==
    {<<rows[i].latitude, rows[i].longitude, rows[i].net_popularity, rows[i].popularity_status>> :
        i \in 1..Len(rows)}

\* get_candidate_base has fetched both grids and returned
BothFetched == w_fn = "get_candidate_base" /\ w_pc = "returned" /\ Len(fetched) = 2

\* C24: net popularity is antisymmetric.  With the two grids of a
\* get_candidate_base call exchanged, every shared location has the negated
\* net_popularity, Leading and Trailing exchanged and Similar kept; and in
\* every row process_data returns, conservative_net_popularity is the
\* negation of progressive_net_popularity (missing where that is missing).
C24_NetPopularityAntisymmetric ==
    /\ BothFetched =>
          LET back == candidate_base_of(fetched[2], fetched[1]) IN
          /\ w_ret.rows = candidate_base_of(fetched[1], fetched[2])
          /\ Len(back) = Len(w_ret.rows)
          /\ NetRows(back) = {<<x[1], x[2], negated(x[3]), swapped(x[4])>> : x \in NetRows(w_ret.rows)}
    /\ outcome.fn = "process_data" =>
          \A i \in 1..Len(outcome.rows) :
              outcome.rows[i].conservative_net_popularity
                  = negated(outcome.rows[i].progressive_net_popularity)

\* the candidate leads by three points at the shared location
C24_Witness ==
    /\ BothFetched
    /\ \E i \in 1..Len(w_ret.rows) :
          /\ w_ret.rows[i].net_popularity = 3
          /\ w_ret.rows[i].popularity_status = "Leading Opponent"

\* ---- the grid fetcher's network calls
\* positions in the log of the search calls for entities and for tags
EntitySearches == {i \in 1..Len(calls) : calls[i].op = "search_entities"}
TagSearches    == {i \in 1..Len(calls) : calls[i].op = "search_tags"}

\* C25: an invocation of get_complete_heatmap_analysis calls the grid endpoint
\* exactly once, as its last network call, after the search calls for all the
\* names it was given, whether they resolved or not.
C25_ExactlyOneGridCall ==
    /\ hm_pc \in {"entities", "tags", "grid"} => GridCalls = {}
    /\ hm_pc = "returned" =>
          /\ GridCalls = {Len(calls)}
          /\ Len(calls) = Len(hm_args.entity_names) + Len(hm_args.tag_names) + 1

\* two entity names and a tag name, none of which resolved
C25_Witness ==
    /\ hm_pc = "returned"
    /\ Len(hm_args.entity_names) = 2 /\ Len(hm_args.tag_names) = 1
    /\ resolution.entity_ids = <<>> /\ resolution.tag_ids = <<>>
    /\ calls[1].answer = "throw" /\ calls[2].answer = "empty" /\ calls[3].answer = "fail"
    /\ Cardinality(GridCalls) = 1

\* the last search call with this operation and name
LastSearch(op, name) ==
    CHOOSE i \in 1..Len(calls) :
        /\ calls[i].op = op /\ calls[i].arg = name
        /\ \A j \in (i + 1)..Len(calls) : ~(calls[j].op = op /\ calls[j].arg = name)

\* the ids the answers in the log hold, in the order of the calls: the first
\* match of an entity search, every id of a tag search
AnsweredIds ==
    [entity_ids |-> FlatMap([c \in Range(calls) |->
                               IF c.op = "search_entities" /\ c.items # <<>>
                                 THEN <<c.items[1]>> ELSE <<>>], calls),
     tag_ids    |-> FlatMap([c \in Range(calls) |->
                               IF c.op = "search_tags"
                                 THEN SelectSeq(c.items, LAMBDA t : t # None) ELSE <<>>], calls)]

\* name resolution is over
Resolved == hm_pc \in {"grid", "returned"}

\* C26: name resolution fails per name and goes on.  Once it is over every
\* supplied name has a resolution record; a name whose search raised, failed
\* or found nothing has a record with success=false and a reason; and the ids
\* collected are those of all the searches that found something, in input
\* order, whatever failed before them.
C26_ResolutionFailsPerName ==
    /\ resolution.entity_ids = AnsweredIds.entity_ids
    /\ resolution.tag_ids = AnsweredIds.tag_ids
    /\ Resolved =>
          /\ \A n \in Range(hm_args.entity_names) :
                /\ n \in DOMAIN resolution.entities
                /\ calls[LastSearch("search_entities", n)].answer # "items" =>
                      /\ ~resolution.entities[n].success
                      /\ resolution.entities[n].error # None
          /\ \A n \in Range(hm_args.tag_names) :
                /\ \E k \in DOMAIN resolution.tags : k[1] = n
                /\ SelectSeq(calls[LastSearch("search_tags", n)].items, LAMBDA t : t # None) = <<>> =>
                      /\ <<n, 0>> \in DOMAIN resolution.tags
                      /\ ~resolution.tags[<<n, 0>>].success
                      /\ resolution.tags[<<n, 0>>].error # None

\* the first entity's search raised, the second entity and the tag resolved
C26_Witness ==
    /\ hm_pc = "returned"
    /\ hm_args.entity_names = <<"Alice", "Bob">> /\ hm_args.tag_names = <<"economy">>
    /\ calls[1].answer = "throw" /\ ~resolution.entities["Alice"].success
    /\ resolution.entity_ids = <<"e2">> /\ resolution.entities["Bob"].entity_id = "e2"
    /\ resolution.tag_ids = <<"t1">>

\* C27: every entity name is searched once and, when the search returns
\* matches, the id recorded for the name is that of the first match; every tag
\* name is searched once and every returned tag that has an id is recorded,
\* at its rank, with search_term equal to the name.
C27_OneSearchPerName ==
    /\ Resolved =>
          /\ Cardinality(EntitySearches) = Len(hm_args.entity_names)
          /\ Cardinality(TagSearches) = Len(hm_args.tag_names)
    /\ \A i \in EntitySearches :
          /\ calls[i].arg = hm_args.entity_names[i]
          /\ (i = LastSearch("search_entities", calls[i].arg) /\ calls[i].items # <<>>) =>
                /\ resolution.entities[calls[i].arg].success
                /\ resolution.entities[calls[i].arg].entity_id = calls[i].items[1]
    /\ \A i \in TagSearches :
          /\ calls[i].arg = hm_args.tag_names[i - Len(hm_args.entity_names)]
          /\ i = LastSearch("search_tags", calls[i].arg) =>
                \A j \in 1..Len(calls[i].items) :
                    calls[i].items[j] # None =>
                        /\ <<calls[i].arg, j - 1>> \in DOMAIN resolution.tags
                        /\ resolution.tags[<<calls[i].arg, j - 1>>].tag_id = calls[i].items[j]
                        /\ resolution.tags[<<calls[i].arg, j - 1>>].search_term = calls[i].arg
                        /\ resolution.tags[<<calls[i].arg, j - 1>>].match_rank = j

\* two matches for the entity, the second-ranked not taken; two tags kept
C27_Witness ==
    /\ hm_pc = "returned"
    /\ hm_args.entity_names = <<"Alice">> /\ hm_args.tag_names = <<"economy">>
    /\ calls[1].items = <<"e2", "e1">> /\ resolution.entity_ids = <<"e2">>
    /\ calls[2].items = <<"t1", "t1">> /\ resolution.tag_ids = <<"t1", "t1">>
    /\ resolution.tags[<<"economy", 1>>].match_rank = 2

\* ---- the session's location groups
\* the entry a successful call adds to the history
NewEntry == [tag |-> fcl_ret'.tag, total_locations |-> fcl_ret'.total_locations]

\* C28: location_history never holds more than 10 entries; a successful
\* filter_campaign_locations call puts its result last and keeps before it
\* the most recent earlier ones in their order, any other call leaves the
\* history alone; the last entry's tag is the tag of identified_locations,
\* and list_location_history returns this history and this tag.
C28_HistoryKeepsTheLastTen ==
    /\ [](/\ Len(state.location_history) <= 10
          /\ state.location_history # <<>> =>
                /\ state.identified_locations # <<>>
                /\ state.location_history[Len(state.location_history)].tag
                      = state.identified_locations[1].tag
          /\ (outcome.fn = "list_location_history" /\ outcome.status = "success") =>
                /\ outcome.history = state.location_history
                /\ outcome.current = state.identified_locations[1].tag)
    /\ [][LET h == state.location_history
              g == state'.location_history
          IN /\ (FilterCall /\ fcl_ret'.status = "success") =>
                   /\ Len(g) = (IF Len(h) < 10 THEN Len(h) + 1 ELSE 10)
                   /\ g[Len(g)] = NewEntry
                   /\ \A i \in 1..(Len(g) - 1) : g[i] = h[i + Len(h) + 1 - Len(g)]
             /\ ~(FilterCall /\ fcl_ret'.status = "success") => g = h]_vars

\* a successful call has returned and the history is full
C28_Witness ==
    /\ Filtered /\ fcl_ret.status = "success" /\ fcl_ret.tag = "swing"
    /\ Len(state.location_history) = 10
    /\ \A i \in 1..9 : state.location_history[i].tag = "rally"
    /\ state.location_history[10].tag = "swing"
    /\ state.identified_locations[1].tag = "swing"

\* C29: a filter_campaign_locations call that ends in a warning or an error
\* leaves identified_locations and location_history as they were;
\* identified_locations, when present, has a non-empty coordinate list and
\* total_locations equal to its length; and get_identified_locations returns
\* what is stored, or an error when nothing is.
C29_FailedFilterKeepsLastResult ==
    /\ [](/\ state.identified_locations # <<>> =>
                /\ state.identified_locations[1].coordinates # <<>>
                /\ state.identified_locations[1].total_locations
                      = Len(state.identified_locations[1].coordinates)
          /\ outcome.fn = "get_identified_locations" =>
                /\ (outcome.status = "error") = (state.identified_locations = <<>>)
                /\ outcome.locations = state.identified_locations)
    /\ [][(FilterCall /\ fcl_ret'.status \in {"warning", "error"}) =>
             /\ state'.identified_locations = state.identified_locations
             /\ state'.location_history = state.location_history]_vars

\* a call that kept no row, in a session that holds an earlier result
C29_Witness ==
    /\ Filtered /\ fcl_ret.status = "warning"
    /\ state.identified_locations # <<>>
    /\ state.identified_locations[1].total_locations = 2
    /\ Len(state.location_history) = 1

\* ---- the references to the saved analysis
\* the same file name, or none on both sides
SameFile(f, g) == IF f = None THEN g = None ELSE IF g = None THEN FALSE ELSE f = g

\* the step keeps temp:candidate_analysis_artifact, temp:analysis_metadata
KeepsFile == SameFile(state.candidate_analysis_artifact, state'.candidate_analysis_artifact)
KeepsMetadata == state'.analysis_metadata = state.analysis_metadata

\* the step in which create_candidate_analysis returns success, the table
\* saved as a new version and both entries naming it
AnalysisSucceeds ==
    /\ cca_pc = "save" /\ cca_pc' = "idle"
    /\ outcome'.fn = "create_candidate_analysis" /\ outcome'.status = "success"
    /\ filename(cca_args) \in DOMAIN artifacts'
    /\ artifacts'[filename(cca_args)] = Append(versions(filename(cca_args)), df4)
    /\ SameFile(state'.candidate_analysis_artifact, filename(cca_args))
    /\ state'.analysis_metadata # <<>>
    /\ state'.analysis_metadata[1].candidate_name = cca_args.candidate_name
    /\ state'.analysis_metadata[1].artifact_version = Len(versions(filename(cca_args)))

\* the step in which create_candidate_analysis ends without success
AnalysisFails ==
    /\ cca_pc # "idle" /\ cca_pc' = "idle"
    /\ outcome'.fn = "create_candidate_analysis" /\ outcome'.status # "success"

\* the step in which collect_campaign_inputs succeeds in a session whose
\* metadata holds no candidate name
InputsWithoutAnalysis ==
    /\ state.analysis_metadata = <<>>
    /\ outcome'.fn = "collect_campaign_inputs" /\ outcome'.status = "success"

\* the entries name the latest version of a saved file, or there is no file
NamesSavedAnalysis ==
    state.candidate_analysis_artifact # None =>
        /\ versions(state.candidate_analysis_artifact) # <<>>
        /\ state.analysis_metadata # <<>>
        /\ SameFile(filename(state.analysis_metadata[1]), state.candidate_analysis_artifact)
        /\ state.analysis_metadata[1].artifact_version
              = Len(versions(state.candidate_analysis_artifact)) - 1

\* filter_campaign_locations without a file name, in a session without one
NothingToFilter ==
    (fcl_pc = "returned" /\ fcl_args.artifact_filename = None
       /\ state.candidate_analysis_artifact = None)
    => (fcl_ret.status = "error" /\ fcl_ret.message = "No candidate analysis found")

\* C30 as stated: both entries are written only by a create_candidate_analysis
\* call that returns success, after the artifact is saved; a call that ends
\* in an error leaves both unchanged; they name the most recent successful
\* analysis; and filter_campaign_locations without a file name, before any
\* successful analysis, returns the 'No candidate analysis found' error.
C30_WrittenOnlyByAnalysis ==
    /\ [](NamesSavedAnalysis /\ NothingToFilter)
    /\ [][/\ ~(KeepsFile /\ KeepsMetadata) => AnalysisSucceeds
          /\ AnalysisFails => (KeepsFile /\ KeepsMetadata)]_vars

\* C30, amended: temp:candidate_analysis_artifact is written only by a
\* create_candidate_analysis call that returns success, after the artifact is
\* saved, and temp:analysis_metadata by such a call or, while it holds no
\* candidate name, by a collect_campaign_inputs call that succeeds; the rest
\* as stated.
C30_WrittenByAnalysisOrInputs ==
    /\ [](NamesSavedAnalysis /\ NothingToFilter)
    /\ [][/\ ~KeepsFile => AnalysisSucceeds
          /\ ~KeepsMetadata => (AnalysisSucceeds \/ (InputsWithoutAnalysis /\ KeepsFile))
          /\ AnalysisFails => (KeepsFile /\ KeepsMetadata)]_vars

\* campaign inputs were collected under a name given by the caller, and two
\* analyses succeeded after that: the entries name the second
C30_Witness ==
    /\ state.candidate_name = "Dana"
    /\ cca_pc = "idle"
    /\ outcome.fn = "create_candidate_analysis" /\ outcome.status = "success"
    /\ DOMAIN artifacts = {filename([candidate_name |-> "Alice", location |-> "Phoenix"]),
                           filename([candidate_name |-> "Carol", location |-> "Phoenix"])}
    /\ state.candidate_analysis_artifact
          = filename([candidate_name |-> "Carol", location |-> "Phoenix"])
    /\ state.analysis_metadata[1].candidate_name = "Carol"

====
